---- MODULE Spec2Model ----
(***************************************************************************)
(* The node controller of longhorn-manager (controller package,            *)
(* src/unnamed/part_000 lines 110-1001) and the data-store calls it makes  *)
(* (src/datastore/longhorn.go).                                            *)
(*                                                                         *)
(* One controller, controllerID, watches every storage node of the         *)
(* cluster.  Its workers take node keys from a rate-limited work queue     *)
(* and run syncNode on them.  The model keeps the API server's objects     *)
(* (nodes, instance managers), what the controller observes on the host    *)
(* (disk probes, disk config files, manager pods, kube-nodes, settings),   *)
(* the work queue, and each worker's position.                             *)
(***************************************************************************)
EXTENDS Integers, Sequences, FiniteSets, TLC

\* ------------------------------------------------------------------ bounds
\* UUIDs that generateDiskConfig can hand out (each one fresh).
MaxUUID == 2
\* Names that createInstanceManager can hand out (each one fresh).
MaxIM == 2
\* Cap of the rate limiter's per-key failure count for adds made by watch
\* events (the count itself is unbounded in the program).
MaxRequeues == 4

\* ------------------------------------------------------- program constants
\* maxRetries of the controller package (handleErr compares with it).
maxRetries == 3

\* The controller under study runs on node n1; n2 is another storage node.
NodeNames == {"n1", "n2"}
controllerID == "n1"
DiskIDs == {"d1", "d2"}
Fsids == {"f1", "f2"}
Workers == {"w1", "w2"}
Images == {"v1", "v2"}

NoKey == "none"
NoUUID == 0

VARIABLES
  node,       \* API server: node name -> Node object (Spec, Status, metadata)
  ims,        \* API server: set of InstanceManager objects
  nextIM,     \* next fresh instance-manager name
  probe,      \* host: disk id -> result of getDiskInfoHandler(disk.Path)
  config,     \* host: disk id -> content of the disk config file at disk.Path
  nextUUID,   \* next fresh UUID of generateDiskConfig
  pod,        \* node name -> the manager pod scheduled on that node
  kube,       \* node name -> the Kubernetes node record
  setting,    \* the settings the controller reads
  replicas,   \* set of Replica objects
  queue,      \* work queue: keys ready for Get, in order
  dirty,      \* work queue: keys that need processing
  processing, \* work queue: keys handed out by Get and not yet Done
  waiting,    \* work queue: keys of AddRateLimited whose delay has not elapsed
  requeues,   \* rate limiter: key -> NumRequeues(key)
  pc,         \* worker -> "idle" (blocked in Get) or "sync" (inside syncNode);
              \* "none" (no goroutine yet), "until" (at the head of the
              \* wait.Until loop) or "done" (goroutine ended)
  wkey,       \* worker -> the key it holds
  run,        \* Run: its position, the informer caches that have synced,
              \* the stop channel and the queue's shutdown flag
  last        \* what the last processNextWorkItem did (observation only)

storeVars == <<node, ims, nextIM>>
hostVars == <<probe, config, nextUUID>>
envVars == <<pod, kube, setting, replicas>>
queueVars == <<queue, dirty, processing, waiting, requeues>>
workerVars == <<pc, wkey, run>>
vars == <<node, ims, nextIM, probe, config, nextUUID, pod, kube, setting,
          replicas, queue, dirty, processing, waiting, requeues, pc, wkey, run,
          last>>

\* ------------------------------------------------------------- conditions
\* The message of a condition: the format string of the call site, named by
\* `text`, and the values it prints that are not fixed by the place of the
\* condition (node name, disk id and path are).
Message(text, args) == [text |-> text, args |-> args]

NoMessage == Message("", <<>>)

\* types.Condition: Status, Reason and Message (LastTransitionTime is not
\* kept).  A condition that was never set reads as Status Unknown.
NoCond == [status |-> "Unknown", reason |-> "", message |-> NoMessage]

GetCondition(conds, type) == conds[type]

SetCondition(conds, type, status, reason, message) ==
  [conds EXCEPT ![type] = [status |-> status, reason |-> reason, message |-> message]]

\* SetConditionAndRecord on the pass state m = [st, events]: sets the
\* condition at the place `where` ("node" or a disk id) and records an
\* event when the status or the message differs from the condition the
\* in-memory copy holds at the call.
CondsAt(st, where) ==
  IF where = "node" THEN st.conds ELSE st.diskStatus[where].conds

WithCondsAt(st, where, conds) ==
  IF where = "node"
  THEN [st EXCEPT !.conds = conds]
  ELSE [st EXCEPT !.diskStatus[where].conds = conds]

SetConditionAndRecord(m, where, type, status, reason, message) ==
  LET old == GetCondition(CondsAt(m.st, where), type) IN
  [m EXCEPT
     !.st = WithCondsAt(m.st, where,
                        SetCondition(CondsAt(m.st, where), type, status, reason,
                                     message)),
     !.events = IF old.status # status \/ old.message # message
                THEN @ \cup {<<"syncNode", where, type, reason>>}
                ELSE @]

NodeConds0 == [Ready |-> NoCond, Schedulable |-> NoCond, MountPropagation |-> NoCond]
DiskConds0 == [Ready |-> NoCond, Schedulable |-> NoCond]

\* &types.DiskStatus{} with the maps syncDiskStatus gives it.
DiskStatus0 ==
  [uuid |-> NoUUID, conds |-> DiskConds0, max |-> 0, avail |-> 0,
   scheduled |-> 0, scheduledReplica |-> {}]

NodeStatus0 == [conds |-> NodeConds0, diskStatus |-> <<>>]

\* ------------------------------------------------- the pass state of syncNode
\* m is what one run of syncNode holds and has done so far:
\*   st        node.Status of the in-memory copy of the node
\*   events    events handed to the event recorder
\*   config, nextUUID   the disk config files (generateDiskConfig writes them)
\*   ims, nextIM        the instance managers (created and deleted on the way)
\*   calls     the calls made to the disk probe, the disk config store and
\*             the instance-manager API: <<call, disk id or manager name>>
\*   err       "nil", or the call whose error syncNode is returning
Pass0(n) ==
  [st |-> node[n].status, events |-> {}, config |-> config,
   nextUUID |-> nextUUID, ims |-> ims, nextIM |-> nextIM, calls |-> {},
   err |-> "nil"]

\* The calls of syncNode that can return an error to it, in program order.
FailPoints ==
  {"GetNode", "RemoveFinalizerForNode", "ListManagerPods", "GetKubernetesNode",
   "GetSettingAsBool", "topologyLabelsChecker", "ListReplicasByNode",
   "GetSettingAsInt", "GetDiskSchedulingInfo", "GetSettingValueExisted",
   "ListInstanceManagersByNode", "DeleteInstanceManager",
   "CreateInstanceManager", "verifyCreation", "UpdateNodeStatus", "Conflict"}

Fails(in, call) == in.fail = call

\* The calls that fail after syncDiskStatus has gone through the disks.
DiskFailPoints == {"ListReplicasByNode"}

\* ------------------------------------------------------ manager-pod health
\* The pod of ListManagerPods with Spec.NodeName = node.Name decides Ready.
\* A pod that lists no PodReady condition sets nothing.
SyncManagerPod(n, m) ==
  IF pod[n].exists
  THEN IF pod[n].ready = "absent"
       THEN m
       ELSE IF pod[n].ready = "True" /\ pod[n].phase = "Running"
            THEN SetConditionAndRecord(m, "node", "Ready", "True", "",
                                       Message("is ready", <<>>))
            ELSE SetConditionAndRecord(m, "node", "Ready", "False", "ManagerPodDown",
                                       Message("manager pod is not running", <<>>))
  ELSE SetConditionAndRecord(m, "node", "Ready", "False", "ManagerPodMissing",
                              Message("manager pod missing", <<>>))

\* ---------------------------------------------------- Kubernetes node status
PressureTypes ==
  {"OutOfDisk", "DiskPressure", "PIDPressure", "MemoryPressure", "NetworkUnavailable"}

\* One iteration of the loop over kubeNode.Status.Conditions.
SyncKubeCondition(m, con) ==
  IF con.type = "Ready"
  THEN IF con.status # "True"
       THEN SetConditionAndRecord(m, "node", "Ready", "False", "KubernetesNodeNotReady",
                                  Message("Kubernetes node not ready", <<>>))
       ELSE m
  ELSE IF con.type \in PressureTypes
       THEN IF con.status = "True"
            THEN SetConditionAndRecord(m, "node", "Ready", "False",
                                       "KubernetesNodePressure",
                                       Message("Kubernetes node has pressure", <<>>))
            ELSE m
       ELSE IF con.status = "True"
            THEN [m EXCEPT !.events =
                    @ \cup {<<"syncNode", "node", con.type, "UnknownNodeConditionTrue">>}]
            ELSE m

RECURSIVE SyncKubeConditions(_, _)
SyncKubeConditions(m, conds) ==
  IF conds = <<>> THEN m
  ELSE SyncKubeConditions(SyncKubeCondition(m, Head(conds)), Tail(conds))

\* A variant that cordons without reading the setting.
SyncCordon_IgnoreSetting(n, m) ==
  IF kube[n].unsched
  THEN SetConditionAndRecord(m, "node", "Schedulable", "False",
                             "KubernetesNodeCordoned", Message("is cordoned", <<>>))
  ELSE SetConditionAndRecord(m, "node", "Schedulable", "True", "", NoMessage)

\* The cordon rule.
SyncCordon(n, m) ==
  IF setting.cordon /\ kube[n].unsched
  THEN SetConditionAndRecord(m, "node", "Schedulable", "False",
                             "KubernetesNodeCordoned", Message("is cordoned", <<>>))
  ELSE SetConditionAndRecord(m, "node", "Schedulable", "True", "", NoMessage)

\* The call of topologyLabelsChecker (lines 575-579).
SyncTopologyLabels(m, in) ==
  IF Fails(in, "topologyLabelsChecker")
  THEN [m EXCEPT !.err = "topologyLabelsChecker"]
  ELSE m

\* The read of the cordon setting and the cordon rule (lines 543-573).
SyncKubeSpec(n, m, in) ==
  IF Fails(in, "GetSettingAsBool") THEN [m EXCEPT !.err = "GetSettingAsBool"]
  ELSE SyncTopologyLabels(SyncCordon(n, m), in)

SyncKubeNode(n, m, in) ==
  IF Fails(in, "GetKubernetesNode") THEN [m EXCEPT !.err = "GetKubernetesNode"]
  ELSE IF ~kube[n].exists
  THEN SetConditionAndRecord(m, "node", "Ready", "False", "KubernetesNodeGone",
                              Message("Kubernetes node missing", <<>>))
  ELSE SyncKubeSpec(n, SyncKubeConditions(m, kube[n].conds), in)

\* ------------------------------------------------------------ disk status
\* A variant that never finds a duplicate.
isFSIDDuplicatedWithExistingReadyDisk_Never(name, disks, diskStatusMap) == FALSE

\* isFSIDDuplicatedWithExistingReadyDisk: another disk of the fsid group
\* `disks` has Ready = True in diskStatusMap.
isFSIDDuplicatedWithExistingReadyDisk(name, disks, diskStatusMap) ==
  /\ Cardinality(disks) > 1
  /\ \E otherName \in disks :
        /\ otherName # name
        /\ GetCondition(diskStatusMap[otherName].conds, "Ready").status = "True"

\* A variant that keeps the entries of disks no longer in Spec.Disks.
SyncDiskKeys_KeepStale(n, st) ==
  [st EXCEPT !.diskStatus =
     [id \in DOMAIN node[n].disks \cup DOMAIN st.diskStatus |->
        [(IF id \in DOMAIN st.diskStatus THEN st.diskStatus[id] ELSE DiskStatus0)
           EXCEPT !.max = 0, !.avail = 0]]]

\* First part of syncDiskStatus: Status.DiskStatus gets the keys of
\* Spec.Disks, and the storage figures of every kept entry are zeroed.
SyncDiskKeys(n, st) ==
  [st EXCEPT !.diskStatus =
     [id \in DOMAIN node[n].disks |->
        [(IF id \in DOMAIN st.diskStatus THEN st.diskStatus[id] ELSE DiskStatus0)
           EXCEPT !.max = 0, !.avail = 0]]]

\* getDiskInfoMap, then the loop that marks the disks whose probe failed.
SyncProbeErrors(n, m) ==
  LET bad == {id \in DOMAIN node[n].disks : probe[id].err}
      message == Message("Get disk information error", <<>>)
      st1 == [m.st EXCEPT !.diskStatus =
                [id \in DOMAIN @ |->
                   IF id \in bad
                   THEN [@[id] EXCEPT !.conds =
                           SetCondition(@, "Ready", "False", "NoDiskInfo", message)]
                   ELSE @[id]]]
  IN [m EXCEPT
        !.st = st1,
        !.events = @ \cup
           {<<"syncNode", id, "Ready", "NoDiskInfo">> : id \in
              {x \in bad :
                 \/ GetCondition(m.st.diskStatus[x].conds, "Ready").status # "False"
                 \/ GetCondition(m.st.diskStatus[x].conds, "Ready").message # message}},
        !.calls = @ \cup {<<"getDiskInfoHandler", id>> : id \in DOMAIN node[n].disks}]

\* fsid2Disks[fsid]: the disks of the node whose probe succeeded with fsid.
FsidGroup(n, fsid) ==
  {id \in DOMAIN node[n].disks : ~probe[id].err /\ probe[id].fsid = fsid}

\* The numbers that stand for disk ids and fsids in a message.
DiskNo == [d \in DiskIDs |-> IF d = "d1" THEN 1 ELSE 2]
FsidNo == [f \in Fsids |-> IF f = "f1" THEN 1 ELSE 2]

\* The slice fsid2Disks[fsid] as the message of the duplicate-fsid
\* condition prints it: the disks of the group in the iteration order.
RECURSIVE GroupOrder(_, _)
GroupOrder(group, order) ==
  IF order = <<>> THEN <<>>
  ELSE IF Head(order) \in group
  THEN <<DiskNo[Head(order)]>> \o GroupOrder(group, Tail(order))
  ELSE GroupOrder(group, Tail(order))

\* generateDiskConfig succeeds: a fresh UUID is written at the disk's path.
GenerateDiskConfig(m, id) ==
  [m EXCEPT !.config[id] = [err |-> "nil", uuid |-> m.nextUUID],
            !.nextUUID = @ + 1]

\* The tail of the loop body (lines 816-824): the disk is ready when the
\* recorded UUID equals the UUID read from (or just written to) the disk.
SyncDiskReadyTail(m, id, diskUUID) ==
  IF m.st.diskStatus[id].uuid = diskUUID
  THEN SetConditionAndRecord(
         [m EXCEPT !.st.diskStatus[id].max = probe[id].max,
                   !.st.diskStatus[id].avail = probe[id].avail],
         id, "Ready", "True", "", Message("is ready", <<>>))
  ELSE m

\* A variant that generates a config for every disk without a recorded UUID,
\* whether a config file was found at its path or not.
SyncDiskFirstSighting_Regenerate(n, m, id, diskUUID, in) ==
  IF isFSIDDuplicatedWithExistingReadyDisk(id, FsidGroup(n, probe[id].fsid),
                                           m.st.diskStatus)
  THEN [m |-> SetConditionAndRecord(
                m, id, "Ready", "False", "DiskFilesystemChanged",
                Message("disk has same file system ID as other disks",
                        <<FsidNo[probe[id].fsid]>>
                          \o GroupOrder(FsidGroup(n, probe[id].fsid), in.order))),
        diskUUID |-> diskUUID, continue |-> TRUE]
  ELSE [m |-> [GenerateDiskConfig(m, id)
                 EXCEPT !.st.diskStatus[id].uuid = m.nextUUID,
                        !.calls = @ \cup {<<"generateDiskConfig", id>>}],
        diskUUID |-> m.nextUUID, continue |-> FALSE]

\* The branch for a disk without a recorded UUID (lines 769-799): the
\* pass state afterwards, the UUID to compare with, and whether the loop
\* went on to the next disk (continue).
SyncDiskFirstSighting(n, m, id, diskUUID, in) ==
  IF isFSIDDuplicatedWithExistingReadyDisk(id, FsidGroup(n, probe[id].fsid),
                                           m.st.diskStatus)
  THEN [m |-> SetConditionAndRecord(
                m, id, "Ready", "False", "DiskFilesystemChanged",
                Message("disk has same file system ID as other disks",
                        <<FsidNo[probe[id].fsid]>>
                          \o GroupOrder(FsidGroup(n, probe[id].fsid), in.order))),
        diskUUID |-> diskUUID, continue |-> TRUE]
  ELSE IF diskUUID = NoUUID
  THEN IF id \in in.genFail
       THEN [m |-> SetConditionAndRecord(
                     [m EXCEPT !.calls = @ \cup {<<"generateDiskConfig", id>>}],
                     id, "Ready", "False", "NoDiskInfo",
                     Message("failed to generate disk config", <<>>)),
             diskUUID |-> diskUUID, continue |-> TRUE]
       ELSE [m |-> [GenerateDiskConfig(m, id)
                      EXCEPT !.st.diskStatus[id].uuid = m.nextUUID,
                             !.calls = @ \cup {<<"generateDiskConfig", id>>}],
             diskUUID |-> m.nextUUID, continue |-> FALSE]
  ELSE [m |-> [m EXCEPT !.st.diskStatus[id].uuid = diskUUID],
        diskUUID |-> diskUUID, continue |-> FALSE]

\* A variant that takes over the UUID found on the disk.
SyncDiskRecorded_Overwrite(m, id, diskUUID) ==
  [m EXCEPT !.st.diskStatus[id].uuid = diskUUID]

\* A variant that leaves the Ready condition of a disk whose config does
\* not match as the earlier pass stored it.
SyncDiskRecorded_KeepReady(m, id, diskUUID) == m

\* The branch for a disk with a recorded UUID (lines 800-814).
SyncDiskRecorded(m, id, diskUUID) ==
  IF diskUUID = NoUUID
  THEN SetConditionAndRecord(m, id, "Ready", "False", "DiskFilesystemChanged",
                             Message("cannot find disk config file", <<>>))
  ELSE IF m.st.diskStatus[id].uuid # diskUUID
  THEN SetConditionAndRecord(m, id, "Ready", "False", "DiskFilesystemChanged",
                             Message("record diskUUID doesn't match", <<>>))
  ELSE m

\* After the branch for a disk without a recorded UUID: on to the next
\* disk, or to the tail of the loop body.
SyncDiskAfterFirstSighting(f, id) ==
  IF f.continue THEN f.m ELSE SyncDiskReadyTail(f.m, id, f.diskUUID)

\* The body of the loop after the call of getDiskConfig returned cfg.
SyncDiskWithConfig(n, m, id, cfg, diskUUID, in) ==
  IF cfg.err = "other"
  THEN SetConditionAndRecord(m, id, "Ready", "False", "NoDiskInfo",
                             Message("failed to get disk config", <<>>))
  ELSE IF m.st.diskStatus[id].uuid = NoUUID
  THEN SyncDiskAfterFirstSighting(SyncDiskFirstSighting(n, m, id, diskUUID, in), id)
  ELSE SyncDiskReadyTail(SyncDiskRecorded(m, id, diskUUID), id, diskUUID)

\* The body of the loop over the disks of one fsid group (lines 751-825).
SyncDiskReady(n, m, id, in) ==
  SyncDiskWithConfig(
    n, [m EXCEPT !.calls = @ \cup {<<"getDiskConfig", id>>}], id, m.config[id],
    IF m.config[id].err = "nil" THEN m.config[id].uuid ELSE NoUUID, in)

\* The loops over fsid2Disks and over each group, in the order `order` that
\* the iteration over the Go maps happens to produce.
RECURSIVE SyncDisksReady(_, _, _, _)
SyncDisksReady(n, m, order, in) ==
  IF order = <<>> THEN m
  ELSE LET id == Head(order) IN
       IF id \in DOMAIN node[n].disks /\ ~probe[id].err
       THEN SyncDisksReady(n, SyncDiskReady(n, m, id, in), Tail(order), in)
       ELSE SyncDisksReady(n, m, Tail(order), in)

\* ------------------------------------------------- disk Schedulable condition
\* A variant that does not group the replicas by Spec.DiskID.
ReplicasOn_AnyDisk(n, id) == {r \in replicas : r.node = n}

\* ListReplicasByNode(name)[id]: the replicas labelled with the node, by disk.
ReplicasOn(n, id) == {r \in replicas : r.node = n /\ r.disk = id}

RECURSIVE SumVolumeSize(_)
SumVolumeSize(rs) ==
  IF rs = {} THEN 0
  ELSE LET r == CHOOSE x \in rs : TRUE IN r.size + SumVolumeSize(rs \ {r})

Max(a, b) == IF a >= b THEN a ELSE b

\* scheduler.IsSchedulableToDisk(size, requiredStorage, info) with the
\* info of scheduler.GetDiskSchedulingInfo(disk, diskStatus).
IsSchedulableToDisk(size, info) ==
  info.avail - size >= Max(info.reserved, (info.max * info.pct) \div 100)

\* A variant that leaves StorageReserved out of the scheduling info.
SyncDiskSchedulable_NoReserved(n, m, id) ==
  LET info == [max |-> m.st.diskStatus[id].max,
               avail |-> m.st.diskStatus[id].avail,
               reserved |-> 0,
               pct |-> setting.minimalAvailablePercentage]
  IN IF ~IsSchedulableToDisk(0, info)
     THEN SetConditionAndRecord(m, id, "Schedulable", "False", "DiskPressure",
                                NoMessage)
     ELSE SetConditionAndRecord(m, id, "Schedulable", "True", "", NoMessage)

\* The loop over Spec.Disks that sets StorageScheduled, ScheduledReplica and
\* the Schedulable condition of one disk (lines 839-873).
SyncDiskSchedulable(n, m, id) ==
  LET rs == ReplicasOn(n, id)
      m1 == [m EXCEPT !.st.diskStatus[id].scheduled = SumVolumeSize(rs),
                      !.st.diskStatus[id].scheduledReplica =
                         {<<r.name, r.size>> : r \in rs}]
      info == [max |-> m1.st.diskStatus[id].max,
               avail |-> m1.st.diskStatus[id].avail,
               reserved |-> node[n].disks[id].reserved,
               pct |-> setting.minimalAvailablePercentage]
  IN IF ~IsSchedulableToDisk(0, info)
     THEN SetConditionAndRecord(
            m1, id, "Schedulable", "False", "DiskPressure",
            Message("has available, but requires reserved, minimal to schedule more replicas",
                    <<info.avail, info.reserved, info.pct>>))
     ELSE SetConditionAndRecord(m1, id, "Schedulable", "True", "",
                                Message("is schedulable", <<>>))

RECURSIVE SyncDisksSchedulable(_, _, _)
SyncDisksSchedulable(n, m, todo) ==
  IF todo = {} THEN m
  ELSE LET id == CHOOSE x \in todo : TRUE IN
       SyncDisksSchedulable(n, SyncDiskSchedulable(n, m, id), todo \ {id})

\* The second half of syncDiskStatus (lines 829-886).
SyncDiskScheduling(n, m, in) ==
  IF Fails(in, "ListReplicasByNode") THEN [m EXCEPT !.err = "ListReplicasByNode"]
  ELSE IF Fails(in, "GetSettingAsInt") THEN [m EXCEPT !.err = "GetSettingAsInt"]
  ELSE IF Fails(in, "GetDiskSchedulingInfo") /\ DOMAIN node[n].disks # {}
  THEN [m EXCEPT !.err = "GetDiskSchedulingInfo"]
  ELSE SyncDisksSchedulable(n, m, DOMAIN node[n].disks)

\* syncDiskStatus(node).
syncDiskStatus(n, m, in) ==
  SyncDiskScheduling(
    n, SyncDisksReady(
         n, SyncProbeErrors(n, [m EXCEPT !.st = SyncDiskKeys(n, m.st)]),
         in.order, in),
    in)

\* ----------------------------------------------------- mount propagation
\* syncNodeStatus(pod, node): the volume mount named longhorn-system of the
\* pod's first container decides the MountPropagation condition; SetCondition
\* records no event.
syncNodeStatus(n, m) ==
  IF ~pod[n].exists \/ pod[n].mount = "absent" THEN m
  ELSE IF pod[n].mount # "Bidirectional"
  THEN [m EXCEPT !.st.conds =
          SetCondition(@, "MountPropagation", "False", "NoMountPropagationSupport",
                       Message("The MountPropagation value is not detected", <<>>))]
  ELSE [m EXCEPT !.st.conds = SetCondition(@, "MountPropagation", "True", "",
                                            NoMessage)]

\* ------------------------------------------------------ instance managers
LiveInstanceStates == {"Running", "Starting"}

\* ListInstanceManagersByNode(node, imType): the selector matches the node
\* label and the type label of the instance managers that the informer
\* cache holds.
ListInstanceManagersByNode(m, n, imType) ==
  {im \in m.ims : im.cached /\ im.labelNode = n /\ im.type = imType}

\* DeleteInstanceManager(name): every instance manager carries the finalizer
\* CreateInstanceManager adds, so the API server marks it for deletion and
\* keeps the object until the finalizer is removed.
DeleteInstanceManager(m, name) ==
  [m EXCEPT !.ims = {IF im.name = name THEN [im EXCEPT !.deleting = TRUE] ELSE im
                       : im \in @},
            !.calls = @ \cup {<<"DeleteInstanceManager", name>>}]

\* A variant that does not look at the instances of the manager.
cleanupRequired_IgnoreInstances(im, defaultInstanceManagerImage) ==
  im.image # defaultInstanceManagerImage

\* The value of cleanupRequired after lines 948-963.
cleanupRequired(im, defaultInstanceManagerImage) ==
  IF im.image = defaultInstanceManagerImage
  THEN FALSE
  ELSE ~(/\ im.state = "Running"
         /\ ~im.deleting
         /\ im.instances \cap LiveInstanceStates # {})

\* A variant without the comparison of the node label with Spec.NodeID.
SyncInstanceManager_NoLabelCheck(m, im, image, in) ==
  IF cleanupRequired(im, image)
  THEN IF Fails(in, "DeleteInstanceManager")
       THEN [m EXCEPT !.err = "DeleteInstanceManager",
                      !.calls = @ \cup {<<"DeleteInstanceManager", im.name>>}]
       ELSE DeleteInstanceManager(m, im.name)
  ELSE m

\* The body of the loop over imMap (lines 943-970).
SyncInstanceManager(m, im, image, in) ==
  IF im.labelNode # im.nodeID THEN [m EXCEPT !.err = "BUG"]
  ELSE IF cleanupRequired(im, image)
  THEN IF Fails(in, "DeleteInstanceManager")
       THEN [m EXCEPT !.err = "DeleteInstanceManager",
                      !.calls = @ \cup {<<"DeleteInstanceManager", im.name>>}]
       ELSE DeleteInstanceManager(m, im.name)
  ELSE m

\* The next manager of the iteration over the Go map imMap: the order is
\* not fixed by the language; in.imDesc picks one of two orders.
NextIM(todo, in) ==
  CHOOSE im \in todo :
    \A other \in todo :
       IF in.imDesc THEN other.name <= im.name ELSE other.name >= im.name

RECURSIVE SyncInstanceManagerLoop(_, _, _, _)
SyncInstanceManagerLoop(m, todo, image, in) ==
  IF todo = {} \/ m.err # "nil" THEN m
  ELSE LET im == NextIM(todo, in) IN
       SyncInstanceManagerLoop(SyncInstanceManager(m, im, image, in),
                               todo \ {im}, image, in)

\* A variant that creates nothing.
createInstanceManager_Skip(n, m, image, imType, in) == m

\* createInstanceManager and datastore.CreateInstanceManager: the object is
\* created with the finalizer under a fresh name, then verifyCreation polls
\* the cache for it and returns an error when the cache does not show it in
\* VerificationRetryCounts tries.
createInstanceManager(n, m, image, imType, in) ==
  IF Fails(in, "CreateInstanceManager")
  THEN [m EXCEPT !.err = "CreateInstanceManager",
                 !.calls = @ \cup {<<"CreateInstanceManager", m.nextIM>>}]
  ELSE [m EXCEPT
          !.calls = @ \cup {<<"CreateInstanceManager", m.nextIM>>},
          !.ims = @ \cup {[name |-> m.nextIM, labelNode |-> n, nodeID |-> n,
                           type |-> imType, image |-> image, state |-> "",
                           deleting |-> FALSE, instances |-> {},
                           cached |-> ~Fails(in, "verifyCreation")]},
          !.nextIM = @ + 1,
          !.err = IF Fails(in, "verifyCreation") THEN "verifyCreation" ELSE @]

\* The end of one round of the loop over imTypes (lines 971-981).
SyncDefaultInstanceManager(n, m, defaultInstanceManagerCreated, image, imType, in) ==
  IF m.err # "nil" \/ defaultInstanceManagerCreated THEN m
  ELSE createInstanceManager(n, m, image, imType, in)

\* One round of the loop over imTypes (lines 937-982).
SyncInstanceManagerType(n, m, image, imType, in) ==
  IF Fails(in, "ListInstanceManagersByNode")
  THEN [m EXCEPT !.err = "ListInstanceManagersByNode"]
  ELSE SyncDefaultInstanceManager(
         n, SyncInstanceManagerLoop(m, ListInstanceManagersByNode(m, n, imType),
                                    image, in),
         \E im \in ListInstanceManagersByNode(m, n, imType) : im.image = image,
         image, imType, in)

RECURSIVE SyncInstanceManagerTypes(_, _, _, _, _)
SyncInstanceManagerTypes(n, m, image, imTypes, in) ==
  IF imTypes = <<>> \/ m.err # "nil" THEN m
  ELSE SyncInstanceManagerTypes(
         n, SyncInstanceManagerType(n, m, image, Head(imTypes), in),
         image, Tail(imTypes), in)

\* A variant that deletes nothing.
CleanupReplicaManagers_Skip(m, todo, in) == m

\* The clean-up of every replica manager of a node without disks
\* (lines 922-932).
RECURSIVE CleanupReplicaManagers(_, _, _)
CleanupReplicaManagers(m, todo, in) ==
  IF todo = {} \/ m.err # "nil" THEN m
  ELSE LET rm == NextIM(todo, in) IN
       CleanupReplicaManagers(
         IF Fails(in, "DeleteInstanceManager")
         THEN [m EXCEPT !.err = "DeleteInstanceManager",
                        !.calls = @ \cup {<<"DeleteInstanceManager", rm.name>>}]
         ELSE DeleteInstanceManager(m, rm.name),
         todo \ {rm}, in)

\* A variant that takes the value of the setting as it is, empty or not.
syncInstanceManagers_AnyValue(n, m, in) ==
  IF Fails(in, "GetSettingValueExisted")
  THEN [m EXCEPT !.err = "GetSettingValueExisted"]
  ELSE IF DOMAIN node[n].disks = {}
  THEN IF Fails(in, "ListInstanceManagersByNode")
       THEN [m EXCEPT !.err = "ListInstanceManagersByNode"]
       ELSE SyncInstanceManagerTypes(
              n, CleanupReplicaManagers(
                   m, ListInstanceManagersByNode(m, n, "replica"), in),
              setting.defaultImage, <<"engine">>, in)
  ELSE SyncInstanceManagerTypes(n, m, setting.defaultImage,
                                <<"engine", "replica">>, in)

\* syncInstanceManagers(node).
syncInstanceManagers(n, m, in) ==
  IF Fails(in, "GetSettingValueExisted") \/ setting.defaultImage = ""
  THEN [m EXCEPT !.err = "GetSettingValueExisted"]
  ELSE IF DOMAIN node[n].disks = {}
  THEN IF Fails(in, "ListInstanceManagersByNode")
       THEN [m EXCEPT !.err = "ListInstanceManagersByNode"]
       ELSE SyncInstanceManagerTypes(
              n, CleanupReplicaManagers(
                   m, ListInstanceManagersByNode(m, n, "replica"), in),
              setting.defaultImage, <<"engine">>, in)
  ELSE SyncInstanceManagerTypes(n, m, setting.defaultImage,
                                <<"engine", "replica">>, in)

\* ---------------------------------------------------------------- syncNode
\* An object the API server does not hold.
NoNode ==
  [exists |-> FALSE, deleting |-> FALSE, finalizer |-> FALSE,
   disks |-> [id \in {} |-> [reserved |-> 0]],
   status |-> [conds |-> NodeConds0, diskStatus |-> [id \in {} |-> DiskStatus0]]]

\* The steps of syncNode between the registration of the deferred status
\* write and its return (lines 456-604).
\* Lines 591-604: mount propagation and instance managers.
SyncNodeAfterDisks(n, m, in) ==
  IF m.err # "nil" THEN m
  ELSE syncInstanceManagers(n, syncNodeStatus(n, m), in)

\* A variant without the owner check of line 583.
SyncNodeOwner_NoCheck(n, m, in) ==
  IF m.err # "nil" THEN m
  ELSE SyncNodeAfterDisks(n, syncDiskStatus(n, m, in), in)

\* Lines 583-604: the work of the controller that runs on the node.
SyncNodeOwner(n, m, in) ==
  IF m.err # "nil" \/ controllerID # n THEN m
  ELSE SyncNodeAfterDisks(n, syncDiskStatus(n, m, in), in)

SyncNodeSteps(n, in) ==
  IF Fails(in, "ListManagerPods") THEN [Pass0(n) EXCEPT !.err = "ListManagerPods"]
  ELSE SyncNodeOwner(n, SyncKubeNode(n, SyncManagerPod(n, Pass0(n)), in), in)

\* A variant that writes the status whatever the earlier steps returned.
DeferredUpdate_Always(n, m, in) ==
  [called |-> m.st # node[n].status, stored |-> m.st # node[n].status,
   requeued |-> FALSE, err |-> m.err]

\* A variant that returns the conflict to the caller.
DeferredUpdate_ConflictIsError(n, m, in) ==
  LET call == m.err = "nil" /\ m.st # node[n].status
      conflict == call /\ Fails(in, "Conflict")
  IN [called |-> call, stored |-> call /\ ~conflict, requeued |-> conflict,
      err |-> IF conflict THEN "Conflict" ELSE m.err]

\* A variant that writes the status after every pass without error, changed
\* or not.
DeferredUpdate_EveryPass(n, m, in) ==
  LET call == m.err = "nil"
      err1 == IF call /\ Fails(in, "UpdateNodeStatus") THEN "UpdateNodeStatus"
              ELSE IF call /\ Fails(in, "Conflict") THEN "Conflict"
              ELSE m.err
      isConflict == err1 = "Conflict"
  IN [called |-> call,
      stored |-> call /\ err1 = "nil",
      requeued |-> isConflict,
      err |-> IF isConflict THEN "nil" ELSE err1]

\* The deferred function of syncNode (lines 443-454) on the pass state m.
\* Gives the error syncNode returns, whether UpdateNodeStatus was called,
\* whether it stored the status, and whether the key was enqueued again.
DeferredUpdate(n, m, in) ==
  LET call == m.err = "nil" /\ m.st # node[n].status
      err1 == IF call /\ Fails(in, "UpdateNodeStatus") THEN "UpdateNodeStatus"
              ELSE IF call /\ Fails(in, "Conflict") THEN "Conflict"
              ELSE m.err
      isConflict == err1 = "Conflict"
  IN [called |-> call,
      stored |-> call /\ err1 = "nil",
      requeued |-> isConflict,
      err |-> IF isConflict THEN "nil" ELSE err1]

\* RemoveFinalizerForNode(node) for a node with a deletion timestamp: the
\* error of the Update call is dropped because DeletionTimestamp is set.
\* With the finalizer gone the API server deletes the object.
RemoveFinalizerForNode(n, in) ==
  IF ~node[n].finalizer THEN [err |-> "nil", obj |-> node[n]]
  ELSE IF Fails(in, "RemoveFinalizerForNode") THEN [err |-> "nil", obj |-> node[n]]
  ELSE [err |-> "nil", obj |-> NoNode]

\* What syncNode returns when its body ends with the pass state m and the
\* deferred function has run.
SyncNodeReturned(n, m, upd) ==
  [path |-> IF controllerID = n THEN "owner" ELSE "other",
   err |-> upd.err,
   obj |-> IF upd.stored THEN [node[n] EXCEPT !.status = m.st] ELSE node[n],
   m |-> m, upd |-> upd,
   failed |-> IF m.err # "nil" THEN m.err
              ELSE IF upd.called /\ ~upd.stored
              THEN (IF upd.requeued THEN "Conflict" ELSE "UpdateNodeStatus")
              ELSE "none"]

SyncNodeReturn(n, m, in) == SyncNodeReturned(n, m, DeferredUpdate(n, m, in))

\* syncNode(key) for the key of node n.  The result names the path taken,
\* the error returned, the node object the API server holds afterwards and
\* the pass state (side effects on config files and instance managers).
syncNode(n, in) ==
  LET none == [called |-> FALSE, stored |-> FALSE, requeued |-> FALSE, err |-> "nil"] IN
  IF Fails(in, "GetNode")
  THEN [path |-> "error", err |-> "GetNode", obj |-> node[n], m |-> Pass0(n),
        upd |-> none, failed |-> "GetNode"]
  ELSE IF ~node[n].exists
  THEN [path |-> "notfound", err |-> "nil", obj |-> node[n], m |-> Pass0(n),
        upd |-> none, failed |-> "none"]
  ELSE IF node[n].deleting
  THEN LET r == RemoveFinalizerForNode(n, in) IN
       [path |-> "deleting", err |-> r.err, obj |-> r.obj,
        m |-> [Pass0(n) EXCEPT !.events = {<<"syncNode", "node", "Delete", "Delete">>}],
        upd |-> none,
        failed |-> IF node[n].finalizer /\ Fails(in, "RemoveFinalizerForNode")
                   THEN "RemoveFinalizerForNode" ELSE "none"]
  ELSE SyncNodeReturn(n, SyncNodeSteps(n, in), in)

\* -------------------------------------------------------------- work queue
\* The rate-limiting work queue of client-go as the controller uses it.
\* q = [queue, dirty, processing, waiting, requeues].
QueueNow ==
  [queue |-> queue, dirty |-> dirty, processing |-> processing,
   waiting |-> waiting, requeues |-> requeues]

\* A variant that queues a key whether or not it is being processed.
QAdd_Always(q, key) ==
  IF key \in q.dirty THEN q
  ELSE [q EXCEPT !.dirty = @ \cup {key}, !.queue = Append(@, key)]

\* queue.Add(key): a key already marked dirty is dropped; a key that is
\* being processed is only marked dirty.
QAdd(q, key) ==
  IF key \in q.dirty THEN q
  ELSE IF key \in q.processing THEN [q EXCEPT !.dirty = @ \cup {key}]
  ELSE [q EXCEPT !.dirty = @ \cup {key}, !.queue = Append(@, key)]

\* queue.AddRateLimited(key): the limiter counts the key and the key is
\* added once its delay has elapsed.
QAddRateLimited(q, key) ==
  [q EXCEPT !.requeues[key] = @ + 1, !.waiting = @ \cup {key}]

\* queue.Forget(key).
QForget(q, key) == [q EXCEPT !.requeues[key] = 0]

\* queue.Done(key): a key marked dirty meanwhile goes back to the queue.
QDone(q, key) ==
  IF key \in q.dirty
  THEN [q EXCEPT !.processing = @ \ {key}, !.queue = Append(@, key)]
  ELSE [q EXCEPT !.processing = @ \ {key}]

\* enqueueNode(node).
enqueueNode(q, key) == QAddRateLimited(q, key)

\* A variant that retries without a bound.
handleErr_NoBound(q, err, key) ==
  IF err = "nil"
  THEN [q |-> QForget(q, key), handled |-> "forget", events |-> {}, reported |-> "nil"]
  ELSE [q |-> QAddRateLimited(q, key), handled |-> "retry", events |-> {},
        reported |-> "nil"]

\* handleErr(err, key): the queue afterwards, the branch taken, the events
\* handed to the event recorder (handleErr has none) and the error passed to
\* utilruntime.HandleError.
handleErr(q, err, key) ==
  IF err = "nil"
  THEN [q |-> QForget(q, key), handled |-> "forget", events |-> {}, reported |-> "nil"]
  ELSE IF q.requeues[key] < maxRetries
  THEN [q |-> QAddRateLimited(q, key), handled |-> "retry", events |-> {},
        reported |-> "nil"]
  ELSE [q |-> QForget(q, key), handled |-> "drop", events |-> {}, reported |-> err]

\* ----------------------------------------------------------- event fan-in
\* The objects the informers deliver: a Setting or a Kubernetes node has a
\* name, a Replica has Spec.NodeID, a Pod has the names of Spec.Containers.
Obj(name, nodeID, containers) ==
  [name |-> name, nodeID |-> nodeID, containers |-> containers]

NoEvent ==
  [informer |-> "", kind |-> "", obj |-> Obj("", "", <<>>), fail |-> "none"]

SettingNameStorageMinimalAvailablePercentage == "StorageMinimalAvailablePercentage"
ManagerContainer == "longhorn-manager"

\* What a handler leaves: the queue and the error it passed to
\* utilruntime.HandleError.
Handled(q, reported) == [q |-> q, reported |-> reported]

\* ds.ListNodes(): the node objects of the lister, or its error.
ListNodes(in) ==
  IF Fails(in, "ListNodes") THEN [err |-> "ListNodes", nodes |-> {}]
  ELSE [err |-> "nil", nodes |-> {n \in NodeNames : node[n].exists}]

\* ds.GetNode(name): the node object of the lister, a not-found error or
\* another error.
GetNode(name, in) ==
  IF Fails(in, "GetNode") THEN [err |-> "GetNode"]
  ELSE IF name \notin NodeNames \/ ~node[name].exists THEN [err |-> "notfound"]
  ELSE [err |-> "nil"]

\* for _, node := range nodeList { nc.enqueueNode(node) }.
RECURSIVE EnqueueNodes(_, _)
EnqueueNodes(q, todo) ==
  IF todo = {} THEN q
  ELSE LET n == CHOOSE x \in todo : TRUE
       IN EnqueueNodes(enqueueNode(q, n), todo \ {n})

\* A variant that lets every setting pass.
filterSettings_All(s) == TRUE

filterSettings(s) == s.name = SettingNameStorageMinimalAvailablePercentage

\* A variant that lets every replica pass.
filterReplica_All(r) == TRUE

filterReplica(r) == r.nodeID = controllerID

\* A variant that looks at the first container only.
filterManagerPod_First(p) ==
  p.containers # <<>> /\ p.containers[1] = ManagerContainer

filterManagerPod(p) ==
  \E i \in DOMAIN p.containers : p.containers[i] = ManagerContainer

enqueueSetting(q, s, in) ==
  LET l == ListNodes(in)
  IN IF l.err # "nil" THEN Handled(q, l.err)
     ELSE Handled(EnqueueNodes(q, l.nodes), "nil")

enqueueReplica(q, r, in) ==
  LET g == GetNode(r.nodeID, in)
  IN IF g.err # "nil" THEN Handled(q, g.err)
     ELSE Handled(enqueueNode(q, r.nodeID), "nil")

enqueueManagerPod(q, p, in) ==
  LET l == ListNodes(in)
  IN IF l.err # "nil" THEN Handled(q, l.err)
     ELSE Handled(EnqueueNodes(q, l.nodes), "nil")

enqueueKubernetesNode(q, n, in) ==
  LET g == GetNode(n.name, in)
  IN IF g.err = "notfound" THEN Handled(q, "nil")
     ELSE IF g.err # "nil" THEN Handled(q, g.err)
     ELSE Handled(enqueueNode(q, n.name), "nil")

\* The handlers registered by NewNodeController.  The setting informer has
\* no DeleteFunc and the Kubernetes node informer has no AddFunc.
Kinds == {"add", "update", "delete"}

SettingHandler(q, kind, s, in) ==
  IF filterSettings(s) /\ kind \in {"add", "update"}
  THEN enqueueSetting(q, s, in) ELSE Handled(q, "nil")

ReplicaHandler(q, kind, r, in) ==
  IF filterReplica(r) THEN enqueueReplica(q, r, in) ELSE Handled(q, "nil")

PodHandler(q, kind, p, in) ==
  IF filterManagerPod(p) THEN enqueueManagerPod(q, p, in) ELSE Handled(q, "nil")

KubeNodeHandler(q, kind, n, in) ==
  IF kind \in {"update", "delete"}
  THEN enqueueKubernetesNode(q, n, in) ELSE Handled(q, "nil")

\* ------------------------------------------------- data store: write checks
\* After a write the data store polls the lister until it shows the write.
VerificationRetryCounts == 20

\* The lister as a poll meets it: it shows the write from try lag + 1 on,
\* and at try `fault` (0: never) the read fails with an error other than
\* not-found.
Answer(c, i) ==
  IF c.fault = i THEN "error"
  ELSE IF i > c.lag THEN "fresh"
  ELSE "stale"

\* verifyUpdate from try i on: nothing is returned; what is left is the
\* number of reads and whether an error was logged.
RECURSIVE verifyUpdate(_, _)
verifyUpdate(c, i) ==
  IF i > VerificationRetryCounts
  THEN [tries |-> i - 1, verified |-> FALSE, logged |-> TRUE, err |-> "nil"]
  ELSE IF Answer(c, i) = "error"
  THEN [tries |-> i, verified |-> FALSE, logged |-> TRUE, err |-> "nil"]
  ELSE IF Answer(c, i) = "fresh"
  THEN [tries |-> i, verified |-> TRUE, logged |-> FALSE, err |-> "nil"]
  ELSE verifyUpdate(c, i + 1)

\* verifyCreation from try i on: the object read, or the error of the last
\* read.
RECURSIVE verifyCreation(_, _)
verifyCreation(c, i) ==
  IF i > VerificationRetryCounts
  THEN [tries |-> i - 1, verified |-> FALSE, logged |-> FALSE,
        err |-> "verifyCreation"]
  ELSE IF Answer(c, i) = "error"
  THEN [tries |-> i, verified |-> FALSE, logged |-> FALSE,
        err |-> "verifyCreation"]
  ELSE IF Answer(c, i) = "fresh"
  THEN [tries |-> i, verified |-> TRUE, logged |-> FALSE, err |-> "nil"]
  ELSE verifyCreation(c, i + 1)

\* The writes of the data store that the node controller uses and their
\* kind.
UpdateOps == {"UpdateNode", "UpdateNodeStatus"}
CreateOps == {"CreateInstanceManager"}

NoWrite ==
  [op |-> "", stored |-> FALSE, err |-> "nil", tries |-> 0,
   verified |-> FALSE, logged |-> FALSE, lag |-> 0, fault |-> 0]

\* What a write leaves: whether the API server holds it, the error the
\* data store returns and the outcome v of the poll.
Written(op, stored, err, v, c) ==
  [NoWrite EXCEPT !.op = op, !.stored = stored, !.err = err,
                  !.tries = v.tries, !.verified = v.verified,
                  !.logged = v.logged, !.lag = c.lag, !.fault = c.fault]

NoPoll == [tries |-> 0, verified |-> FALSE, logged |-> FALSE, err |-> "nil"]

\* UpdateNode / UpdateNodeStatus: the error of the API call is returned,
\* verifyUpdate returns nothing.
UpdateWrite(op, apiErr, c) ==
  IF apiErr THEN Written(op, FALSE, op, NoPoll, c)
  ELSE Written(op, TRUE, "nil", verifyUpdate(c, 1), c)

\* CreateInstanceManager: the error of the API call or of verifyCreation is
\* returned; SkipListerCheck leaves the poll out.
CreateWrite(op, apiErr, skipListerCheck, c) ==
  IF apiErr THEN Written(op, FALSE, op, NoPoll, c)
  ELSE IF skipListerCheck THEN Written(op, TRUE, "nil", NoPoll, c)
  ELSE Written(op, TRUE, verifyCreation(c, 1).err, verifyCreation(c, 1), c)

\* ------------------------------------------------------------ observation
\* `last` describes the processNextWorkItem that has just returned; every
\* other step sets it back to NoPass.
\* A step that an informer notification has caused names the notification
\* in `event`.
NoPass ==
  [key |-> NoKey, path |-> "", err |-> "nil", failed |-> "none",
   called |-> FALSE, stored |-> FALSE, requeued |-> FALSE, changed |-> FALSE,
   handled |-> "", numRequeues |-> 0, events |-> {}, calls |-> {},
   reported |-> "nil", event |-> NoEvent, write |-> NoWrite]

\* ---------------------------------------------------------- initial state
\* types.CreateDefaultDisk / an operator's disk entry: path and reservation.
DiskSpec0 == [reserved |-> 0]

Node0 ==
  [exists |-> TRUE, deleting |-> FALSE, finalizer |-> TRUE,
   disks |-> [id \in {} |-> DiskSpec0],
   status |-> [conds |-> NodeConds0, diskStatus |-> [id \in {} |-> DiskStatus0]]]

ProbeErr == [err |-> TRUE, fsid |-> "", max |-> 0, avail |-> 0]
ProbeOK(fsid, avail) == [err |-> FALSE, fsid |-> fsid, max |-> 100, avail |-> avail]
ProbeValues == {ProbeErr} \cup {ProbeOK(f, 50) : f \in Fsids}

ConfigNotFound == [err |-> "notfound", uuid |-> NoUUID]
ConfigUnreadable == [err |-> "other", uuid |-> NoUUID]
ConfigOf(u) == [err |-> "nil", uuid |-> u]

Pod0 == [exists |-> TRUE, ready |-> "True", phase |-> "Running", mount |-> "Bidirectional"]
Kube0 == [exists |-> TRUE, conds |-> <<[type |-> "Ready", status |-> "True"]>>,
          unsched |-> FALSE]
Setting0 == [cordon |-> FALSE, minimalAvailablePercentage |-> 25, defaultImage |-> "v1"]

\* The five informers whose HasSynced functions Run waits for.
Informers == {"node", "pod", "setting", "replica", "kubenode"}

\* Run has just been called: nothing synced, the stop channel open.
RunCalled ==
  [at |-> "WaitForCacheSync", synced |-> {}, stop |-> FALSE, shutdown |-> FALSE]

\* Run has started the workers and blocks on the stop channel.
Running ==
  [at |-> "stopCh", synced |-> Informers, stop |-> FALSE, shutdown |-> FALSE]

\* The cluster with the node objects `nodes`, every worker at p and Run
\* at r.
InitControlled(nodes, fsidOf, p, r) ==
  /\ node = nodes
  /\ ims = {}
  /\ nextIM = 1
  /\ probe = [d \in DiskIDs |-> ProbeOK(fsidOf[d], 50)]
  /\ config = [d \in DiskIDs |-> ConfigNotFound]
  /\ nextUUID = 1
  /\ pod = [n \in NodeNames |-> Pod0]
  /\ kube = [n \in NodeNames |-> Kube0]
  /\ setting = Setting0
  /\ replicas = {}
  /\ queue = <<>>
  /\ dirty = {}
  /\ processing = {}
  /\ waiting = {}
  /\ requeues = [k \in NodeNames |-> 0]
  /\ pc = [w \in Workers |-> p]
  /\ wkey = [w \in Workers |-> NoKey]
  /\ run = r
  /\ last = NoPass

\* The cluster when the workers have started with the node objects `nodes`.
InitCluster(nodes, fsidOf) == InitControlled(nodes, fsidOf, "idle", Running)

\* The cluster when the controller starts: nodes n1 and n2 exist with the
\* disks `disks` declared on n1, nothing reconciled yet.
InitWith(disks, fsidOf) ==
  InitCluster([n \in NodeNames |->
                 IF n = controllerID
                 THEN [Node0 EXCEPT !.disks = [id \in disks |-> DiskSpec0]]
                 ELSE Node0],
              fsidOf)

\* Each disk on a filesystem of its own; both disks on one filesystem.
OwnFsid == [d \in DiskIDs |-> IF d = "d1" THEN "f1" ELSE "f2"]
SameFsid == [d \in DiskIDs |-> "f1"]

Init == InitWith({"d1"}, OwnFsid)

\* ------------------------------------------------------- controller steps
SetQueue(q) ==
  /\ queue' = q.queue
  /\ dirty' = q.dirty
  /\ processing' = q.processing
  /\ waiting' = q.waiting
  /\ requeues' = q.requeues

\* A watch event of the node informer (add, update, delete or resync) for
\* node n: the handler calls enqueueNode.
NodeEvent(n) ==
  /\ requeues[n] < MaxRequeues
  /\ SetQueue(enqueueNode(QueueNow, n))
  /\ last' = NoPass
  /\ UNCHANGED <<storeVars, hostVars, envVars, workerVars>>

\* An informer delivers the notification `kind` for the object obj; h is
\* what the registered handler leaves.
Notify(informer, kind, obj, in, h) ==
  /\ \A n \in NodeNames : h.q.requeues[n] <= MaxRequeues
  /\ SetQueue(h.q)
  /\ last' = [NoPass EXCEPT
                !.reported = h.reported,
                !.event = [informer |-> informer, kind |-> kind, obj |-> obj,
                           fail |-> in.fail]]
  /\ UNCHANGED <<storeVars, hostVars, envVars, workerVars>>

SettingNames ==
  {SettingNameStorageMinimalAvailablePercentage,
   "DisableSchedulingOnCordonedNode", "DefaultInstanceManagerImage"}

SettingEvent(kind, name, fail) ==
  Notify("setting", kind, Obj(name, "", <<>>), [fail |-> fail],
         SettingHandler(QueueNow, kind, Obj(name, "", <<>>), [fail |-> fail]))

\* Replicas are scheduled to n1, to n2 or not yet to any node.
ReplicaEvent(kind, nodeID, fail) ==
  Notify("replica", kind, Obj("r1", nodeID, <<>>), [fail |-> fail],
         ReplicaHandler(QueueNow, kind, Obj("r1", nodeID, <<>>), [fail |-> fail]))

PodContainers ==
  {<<>>, <<"engine">>, <<ManagerContainer>>, <<"sidecar", ManagerContainer>>}

PodEvent(kind, containers, fail) ==
  Notify("pod", kind, Obj("p1", "", containers), [fail |-> fail],
         PodHandler(QueueNow, kind, Obj("p1", "", containers), [fail |-> fail]))

KubeNodeEvent(kind, name, fail) ==
  Notify("kubenode", kind, Obj(name, "", <<>>), [fail |-> fail],
         KubeNodeHandler(QueueNow, kind, Obj(name, "", <<>>), [fail |-> fail]))

\* The delay of an AddRateLimited elapses: the delaying queue calls Add.
DelayElapsed(key) ==
  /\ key \in waiting
  /\ SetQueue(QAdd([QueueNow EXCEPT !.waiting = @ \ {key}], key))
  /\ last' = NoPass
  /\ UNCHANGED <<storeVars, hostVars, envVars, workerVars>>

\* processNextWorkItem, first half: queue.Get() hands worker w a key.
Get(w) ==
  /\ pc[w] = "idle"
  /\ queue # <<>>
  /\ LET key == Head(queue) IN
       /\ queue' = Tail(queue)
       /\ processing' = processing \cup {key}
       /\ dirty' = dirty \ {key}
       /\ wkey' = [wkey EXCEPT ![w] = key]
  /\ pc' = [pc EXCEPT ![w] = "sync"]
  /\ last' = NoPass
  /\ UNCHANGED <<storeVars, hostVars, envVars, waiting, requeues, run>>

\* The disks for which this pass may call generateDiskConfig.
GenerateCandidates(n) ==
  IF n # controllerID \/ ~node[n].exists THEN {}
  ELSE {id \in DOMAIN node[n].disks :
          ~probe[id].err /\ config[id].err = "notfound"}

\* The orders in which a Go map of the disk ids can be iterated.
DiskOrders ==
  {o \in [1..Cardinality(DiskIDs) -> DiskIDs] :
     \A i, j \in DOMAIN o : o[i] = o[j] => i = j}

\* What the environment decides during one syncNode: which call fails, the
\* iteration orders of the maps, and which generateDiskConfig calls fail.
\* The order of imMap shows only in a pass that fails in syncInstanceManagers.
Inputs(n, fails) ==
  [fail : fails, order : DiskOrders, genFail : SUBSET GenerateCandidates(n),
   imDesc : IF fails \cap {"ListInstanceManagersByNode", "DeleteInstanceManager",
                           "CreateInstanceManager", "verifyCreation"} = {}
            THEN {FALSE} ELSE BOOLEAN]

\* What syncNode(key) with result r leaves in the API server and on the
\* host: the node object, the instance managers and the disk config files.
ApplySync(key, r) ==
  /\ r.m.nextUUID <= MaxUUID + 1
  /\ r.m.nextIM <= MaxIM + 1
  /\ node' = [node EXCEPT ![key] = r.obj]
  /\ ims' = r.m.ims
  /\ nextIM' = r.m.nextIM
  /\ config' = r.m.config
  /\ nextUUID' = r.m.nextUUID

\* A pass that was not followed by handleErr.
NoHandle == [handled |-> "", events |-> {}, reported |-> "nil"]

Observe(key, r, h, numRequeues) ==
  [key |-> key, path |-> r.path, err |-> r.err, failed |-> r.failed,
   called |-> r.upd.called, stored |-> r.upd.stored, requeued |-> r.upd.requeued,
   changed |-> r.m.st # node[key].status,
   handled |-> h.handled, numRequeues |-> numRequeues,
   events |-> r.m.events \cup h.events, calls |-> r.m.calls,
   reported |-> h.reported, event |-> NoEvent, write |-> NoWrite]

\* processNextWorkItem, second half: syncNode(key), handleErr(err, key) and
\* the deferred queue.Done(key), with the environment's input `in`.
\* The queue when syncNode has returned r: enqueueNode ran on a conflict.
QueueAfterSync(key, r) ==
  IF r.upd.requeued THEN enqueueNode(QueueNow, key) ELSE QueueNow

ProcessHandled(w, key, r, h, numRequeues) ==
  /\ ApplySync(key, r)
  /\ SetQueue(QDone(h.q, key))
  /\ pc' = [pc EXCEPT ![w] = "idle"]
  /\ wkey' = [wkey EXCEPT ![w] = NoKey]
  /\ last' = Observe(key, r, h, numRequeues)
  /\ UNCHANGED <<probe, envVars, run>>

ProcessResult(w, key, r) ==
  ProcessHandled(w, key, r, handleErr(QueueAfterSync(key, r), r.err, key),
                 QueueAfterSync(key, r).requeues[key])

ProcessWith(w, in) == ProcessResult(w, wkey[w], syncNode(wkey[w], in))

\* -------------------------------------------------------- data-store writes
\* The data store performs the write w.
DataStoreWrite(w) ==
  /\ last' = [NoPass EXCEPT !.write = w]
  /\ last' # last
  /\ UNCHANGED <<storeVars, hostVars, envVars, queueVars, workerVars>>

\* The lag of the lister and the try at which its read fails (never, at
\* the first try, at the last try).
Caches ==
  [lag : 0..(VerificationRetryCounts + 1), fault : {0, 1, VerificationRetryCounts}]

\* ---------------------------------------------------------------- Run
\* The HasSynced function of informer i starts to return true.
CacheSynced(i) ==
  /\ i \notin run.synced
  /\ run' = [run EXCEPT !.synced = @ \cup {i}]
  /\ last' = NoPass
  /\ UNCHANGED <<storeVars, hostVars, envVars, queueVars, pc, wkey>>

\* The stop channel is closed.
CloseStop ==
  /\ ~run.stop
  /\ run' = [run EXCEPT !.stop = TRUE]
  /\ last' = NoPass
  /\ UNCHANGED <<storeVars, hostVars, envVars, queueVars, pc, wkey>>

\* controller.WaitForCacheSync returns true: the five caches have synced.
WaitForCacheSyncTrue ==
  /\ run.at = "WaitForCacheSync"
  /\ run.synced = Informers
  /\ run' = [run EXCEPT !.at = "workers"]
  /\ last' = NoPass
  /\ UNCHANGED <<storeVars, hostVars, envVars, queueVars, pc, wkey>>

\* controller.WaitForCacheSync returns false: the stop channel is closed.
\* Run returns and the deferred queue.ShutDown() runs.
WaitForCacheSyncFalse ==
  /\ run.at = "WaitForCacheSync"
  /\ run.stop
  /\ run' = [run EXCEPT !.at = "returned", !.shutdown = TRUE]
  /\ last' = NoPass
  /\ UNCHANGED <<storeVars, hostVars, envVars, queueVars, pc, wkey>>

\* A variant that does not wait for the caches.
StartWorkers_NoWait ==
  /\ run.at \in {"WaitForCacheSync", "workers"}
  /\ ~run.stop
  /\ run' = [run EXCEPT !.at = "stopCh"]
  /\ pc' = [w \in Workers |-> "until"]
  /\ last' = NoPass
  /\ UNCHANGED <<storeVars, hostVars, envVars, queueVars, wkey>>

\* for i := 0; i < workers; i++ { go wait.Until(nc.worker, ...) }.
StartWorkers ==
  /\ run.at = "workers"
  /\ run' = [run EXCEPT !.at = "stopCh"]
  /\ pc' = [w \in Workers |-> "until"]
  /\ last' = NoPass
  /\ UNCHANGED <<storeVars, hostVars, envVars, queueVars, wkey>>

\* A variant that returns without shutting the queue down.
RunStopped_NoShutDown ==
  /\ run.at = "stopCh"
  /\ run.stop
  /\ run' = [run EXCEPT !.at = "returned"]
  /\ last' = NoPass
  /\ UNCHANGED <<storeVars, hostVars, envVars, queueVars, pc, wkey>>

\* <-stopCh: Run returns and the deferred queue.ShutDown() runs.
RunStopped ==
  /\ run.at = "stopCh"
  /\ run.stop
  /\ run' = [run EXCEPT !.at = "returned", !.shutdown = TRUE]
  /\ last' = NoPass
  /\ UNCHANGED <<storeVars, hostVars, envVars, queueVars, pc, wkey>>

\* wait.Until(nc.worker, time.Second, stopCh) at the head of its loop: it
\* returns when the stop channel is closed and calls nc.worker otherwise.
Until(w) ==
  /\ pc[w] = "until"
  /\ pc' = [pc EXCEPT ![w] = IF run.stop THEN "done" ELSE "idle"]
  /\ last' = NoPass
  /\ UNCHANGED <<storeVars, hostVars, envVars, queueVars, wkey, run>>

\* queue.Get() returns quit: the queue is shut down and empty, so
\* processNextWorkItem returns false and nc.worker returns.
GetQuit(w) ==
  /\ pc[w] = "idle"
  /\ queue = <<>>
  /\ run.shutdown
  /\ pc' = [pc EXCEPT ![w] = "until"]
  /\ last' = NoPass
  /\ UNCHANGED <<storeVars, hostVars, envVars, queueVars, wkey, run>>

\* A pass in which every call succeeds.
Process(w) ==
  /\ pc[w] = "sync"
  /\ \E in \in Inputs(wkey[w], {"none"}) : ProcessWith(w, in)

\* A pass in which one of the calls `fails` returns an error.
ProcessFault(w, fails) ==
  /\ pc[w] = "sync"
  /\ \E in \in Inputs(wkey[w], fails) : ProcessWith(w, in)

\* syncNode(key) alone, as a worker runs it for the key of node n: the pass
\* with its deferred status write, seen apart from the queue that delivered
\* the key.  The queue changes only when the pass enqueues the key again.
SyncNodeResult(n, r) ==
  /\ ApplySync(n, r)
  /\ IF r.upd.requeued
     THEN requeues[n] < MaxRequeues /\ SetQueue(enqueueNode(QueueNow, n))
     ELSE UNCHANGED queueVars
  /\ last' = Observe(n, r, NoHandle, requeues[n])
  /\ UNCHANGED <<probe, envVars, workerVars>>

SyncNodeWith(n, in) == SyncNodeResult(n, syncNode(n, in))

SyncNode(n) == \E in \in Inputs(n, {"none"}) : SyncNodeWith(n, in)

\* A pass in which one of the calls `fails` returns an error.
SyncNodeFailing(n, fails) == \E in \in Inputs(n, fails) : SyncNodeWith(n, in)

\* ------------------------------------------------------- environment steps
\* An operator edits Spec.Disks of node n.
SetDisks(n, ids) ==
  /\ node[n].exists
  /\ ids # DOMAIN node[n].disks
  /\ node' = [node EXCEPT ![n].disks = [id \in ids |-> DiskSpec0]]
  /\ last' = NoPass
  /\ UNCHANGED <<ims, nextIM, hostVars, envVars, queueVars, workerVars>>

\* What getDiskInfoHandler reports for the path of disk d changes (mount,
\* unmount, I/O error).
ProbeChange(d, v) ==
  /\ probe[d] # v
  /\ probe' = [probe EXCEPT ![d] = v]
  /\ last' = NoPass
  /\ UNCHANGED <<storeVars, config, nextUUID, envVars, queueVars, workerVars>>

\* Another filesystem, f, without a config file is mounted at the path of
\* disk d.
Remount(d, f) ==
  /\ probe[d].err \/ probe[d].fsid # f
  /\ probe' = [probe EXCEPT ![d] = ProbeOK(f, 50)]
  /\ config' = [config EXCEPT ![d] = ConfigNotFound]
  /\ last' = NoPass
  /\ UNCHANGED <<storeVars, nextUUID, envVars, queueVars, workerVars>>

\* The config file seen at the path of disk d changes: it disappears, it
\* becomes unreadable, or a filesystem carrying an earlier config is mounted.
ConfigValues == {ConfigNotFound, ConfigUnreadable} \cup {ConfigOf(u) : u \in 1..(nextUUID - 1)}

ConfigChange(d, v) ==
  /\ config[d] # v
  /\ config' = [config EXCEPT ![d] = v]
  /\ last' = NoPass
  /\ UNCHANGED <<storeVars, probe, nextUUID, envVars, queueVars, workerVars>>

\* The node object of n is deleted through the API: the finalizer keeps the
\* object, which gets a deletion timestamp.
MarkDeleted(n) ==
  /\ node[n].exists
  /\ ~node[n].deleting
  /\ node' = [node EXCEPT ![n].deleting = TRUE]
  /\ last' = NoPass
  /\ UNCHANGED <<ims, nextIM, hostVars, envVars, queueVars, workerVars>>

\* The manager pod of node n changes (restart, crash, eviction).
PodValues ==
  {Pod0, [Pod0 EXCEPT !.ready = "False"], [Pod0 EXCEPT !.exists = FALSE]}

PodChange(n, v) ==
  /\ pod[n] # v
  /\ pod' = [pod EXCEPT ![n] = v]
  /\ last' = NoPass
  /\ UNCHANGED <<storeVars, hostVars, kube, setting, replicas, queueVars, workerVars>>

\* The Kubernetes node record of node n changes (kubelet stops reporting,
\* pressure, cordon, removal from the cluster).
KubeValues ==
  {Kube0,
   [Kube0 EXCEPT !.conds = <<[type |-> "Ready", status |-> "False"]>>],
   [Kube0 EXCEPT !.conds = <<[type |-> "Ready", status |-> "True"],
                             [type |-> "DiskPressure", status |-> "True"]>>],
   [Kube0 EXCEPT !.unsched = TRUE],
   [Kube0 EXCEPT !.exists = FALSE]}

KubeChange(n, v) ==
  /\ kube[n] # v
  /\ kube' = [kube EXCEPT ![n] = v]
  /\ last' = NoPass
  /\ UNCHANGED <<storeVars, hostVars, pod, setting, replicas, queueVars, workerVars>>

\* An operator edits StorageReserved of disk id of node n.
SetReserved(n, id, v) ==
  /\ node[n].exists
  /\ id \in DOMAIN node[n].disks
  /\ node[n].disks[id].reserved # v
  /\ node' = [node EXCEPT ![n].disks[id].reserved = v]
  /\ last' = NoPass
  /\ UNCHANGED <<ims, nextIM, hostVars, envVars, queueVars, workerVars>>

\* An operator sets StorageMinimalAvailablePercentage.
SettingPercentage(v) ==
  /\ setting.minimalAvailablePercentage # v
  /\ setting' = [setting EXCEPT !.minimalAvailablePercentage = v]
  /\ last' = NoPass
  /\ UNCHANGED <<storeVars, hostVars, pod, kube, replicas, queueVars, workerVars>>

\* The replica controller creates or deletes the Replica object r; r.node
\* is its Spec.NodeID, r.disk its Spec.DiskID.
ReplicaCreate(r) ==
  /\ r \notin replicas
  /\ replicas' = replicas \cup {r}
  /\ last' = NoPass
  /\ UNCHANGED <<storeVars, hostVars, pod, kube, setting, queueVars, workerVars>>

ReplicaDelete(r) ==
  /\ r \in replicas
  /\ replicas' = replicas \ {r}
  /\ last' = NoPass
  /\ UNCHANGED <<storeVars, hostVars, pod, kube, setting, queueVars, workerVars>>

\* A replica that names a disk which is not in Spec.Disks of its node is
\* created or deleted.  Nothing else has changed since the last pass, whose
\* observation stays.
StrayReplica(r) ==
  /\ r.disk \notin DOMAIN node[r.node].disks
  /\ replicas' = IF r \in replicas THEN replicas \ {r} ELSE replicas \cup {r}
  /\ UNCHANGED <<storeVars, hostVars, pod, kube, setting, queueVars, workerVars, last>>

\* An operator sets DisableSchedulingOnCordonedNode.
SettingCordon(v) ==
  /\ setting.cordon # v
  /\ setting' = [setting EXCEPT !.cordon = v]
  /\ last' = NoPass
  /\ UNCHANGED <<storeVars, hostVars, pod, kube, replicas, queueVars, workerVars>>

\* The instance-manager controller reports the state of manager `name` and
\* of the instances it runs; it works from the same informer, so it acts on
\* a manager only once the cache shows it.
IMStatusValues ==
  {[state |-> "Running", instances |-> {"Running"}],
   [state |-> "Error", instances |-> {}]}

IMStatus(name, v) ==
  /\ \E im \in ims : im.name = name /\ ~im.deleting /\ im.cached
                      /\ [state |-> im.state, instances |-> im.instances] # v
  /\ ims' = {IF im.name = name
             THEN [im EXCEPT !.state = v.state, !.instances = v.instances]
             ELSE im : im \in ims}
  /\ last' = NoPass
  /\ UNCHANGED <<node, nextIM, hostVars, envVars, queueVars, workerVars>>

\* The instance-manager controller removes the finalizer of a manager that
\* is marked for deletion: the API server drops the object.
IMFinalize(name) ==
  /\ \E im \in ims : im.name = name /\ im.deleting
  /\ ims' = {im \in ims : im.name # name}
  /\ last' = NoPass
  /\ UNCHANGED <<node, nextIM, hostVars, envVars, queueVars, workerVars>>

\* Manager `name` is deleted through the API by someone else than the node
\* controller: the finalizer keeps the object, which gets a deletion
\* timestamp.
IMMarkDeleted(name) ==
  /\ \E im \in ims : im.name = name /\ ~im.deleting /\ im.cached
  /\ ims' = {IF im.name = name THEN [im EXCEPT !.deleting = TRUE] ELSE im : im \in ims}
  /\ last' = NoPass
  /\ UNCHANGED <<node, nextIM, hostVars, envVars, queueVars, workerVars>>

\* Spec.NodeID of manager `name` is edited to v while its node label stays.
IMSetNodeID(name, v) ==
  /\ \E im \in ims : im.name = name /\ ~im.deleting /\ im.cached /\ im.nodeID # v
  /\ ims' = {IF im.name = name THEN [im EXCEPT !.nodeID = v] ELSE im : im \in ims}
  /\ last' = NoPass
  /\ UNCHANGED <<node, nextIM, hostVars, envVars, queueVars, workerVars>>

\* The informer cache catches up with a created manager.
CacheSync(name) ==
  /\ \E im \in ims : im.name = name /\ ~im.cached
  /\ ims' = {IF im.name = name THEN [im EXCEPT !.cached = TRUE] ELSE im : im \in ims}
  /\ last' = NoPass
  /\ UNCHANGED <<node, nextIM, hostVars, envVars, queueVars, workerVars>>

\* An operator sets the default instance manager image.
SettingImage(v) ==
  /\ setting.defaultImage # v
  /\ setting' = [setting EXCEPT !.defaultImage = v]
  /\ last' = NoPass
  /\ UNCHANGED <<storeVars, hostVars, pod, kube, replicas, queueVars, workerVars>>

\* ---------------------------------------------------------- specifications
\* The owning controller reconciles node n1 while its disks, their probes
\* and their config files change.  Disk d1 stays on filesystem f1 and d2
\* moves between f1 and f2, which covers the two disks being on the same
\* filesystem and on different ones.
NextDisk ==
  \/ \E d \in DiskIDs : \E v \in ProbeValues :
       (d = "d1" => v.fsid # "f2") /\ ProbeChange(d, v)
  \/ \E d \in DiskIDs : \E v \in ConfigValues : ConfigChange(d, v)
  \/ SyncNode("n1")
  \/ SyncNodeFailing("n1", DiskFailPoints)

SpecDisk == InitWith(DiskIDs, SameFsid) /\ [][NextDisk]_vars

\* The controller of n1 reconciles both nodes while operators edit the
\* disks of the nodes and delete nodes.
KeysFailPoints == {"GetSettingValueExisted"}

NextKeys ==
  \/ \E n \in NodeNames : \E ids \in SUBSET DiskIDs : SetDisks(n, ids)
  \/ \E n \in NodeNames : MarkDeleted(n)
  \/ \E n \in NodeNames : SyncNode(n)
  \/ \E n \in NodeNames : SyncNodeFailing(n, KeysFailPoints)

SpecKeys == InitWith({"d1"}, OwnFsid) /\ [][NextKeys]_vars

\* The workers of the controller of n1 take the keys of both nodes from the
\* queue while watch events enqueue them and passes fail.
QueueFailPoints == {"GetKubernetesNode"}

NextQueue ==
  \/ \E n \in NodeNames : NodeEvent(n)
  \/ \E n \in NodeNames : DelayElapsed(n)
  \/ \E w \in Workers : Get(w)
  \/ \E w \in Workers : Process(w)
  \/ \E w \in Workers : ProcessFault(w, QueueFailPoints)

SpecQueue == InitWith({}, OwnFsid) /\ [][NextQueue]_vars

\* The workers reconcile n1 while its manager pod changes and status writes
\* meet conflicts.  The delaying queue hands over every key whose delay has
\* elapsed, and a worker blocked in Get takes a queued key.
NextConflict ==
  \/ NodeEvent(controllerID)
  \/ DelayElapsed(controllerID)
  \/ \E w \in Workers : Get(w)
  \/ \E w \in Workers : Process(w)
  \/ \E w \in Workers : ProcessFault(w, {"Conflict"})
  \/ \E v \in PodValues : PodChange(controllerID, v)

SpecConflict ==
  /\ InitWith({}, OwnFsid)
  /\ [][NextConflict]_vars
  /\ WF_vars(DelayElapsed(controllerID))
  /\ WF_vars(\E w \in Workers : Get(w))

\* One worker of the controller of n1 takes the key of n1 from the queue
\* while watch events enqueue it, any call of the pass may fail, the manager
\* pod changes and the node is deleted.
NextRetry ==
  \/ NodeEvent(controllerID)
  \/ DelayElapsed(controllerID)
  \/ Get("w1")
  \/ Process("w1")
  \/ ProcessFault("w1", FailPoints)
  \/ \E v \in PodValues : PodChange(controllerID, v)
  \/ MarkDeleted(controllerID)

SpecRetry == InitWith({}, OwnFsid) /\ [][NextRetry]_vars

\* The controller of n1 reconciles its node while the default image, the
\* disks of n1 and the instance managers change, and calls of
\* syncInstanceManagers fail.
IMFailPoints == {"DeleteInstanceManager", "verifyCreation"}

IMNames == 1..(nextIM - 1)

NextIMs ==
  \/ \E ids \in {{}, {"d1"}} : SetDisks(controllerID, ids)
  \/ SettingImage("v2")
  \/ \E name \in IMNames : \E v \in IMStatusValues : IMStatus(name, v)
  \/ \E name \in IMNames : IMFinalize(name)
  \/ \E name \in IMNames : CacheSync(name)
  \/ SyncNode(controllerID)
  \/ SyncNodeFailing(controllerID, IMFailPoints)

SpecIM == InitWith({}, OwnFsid) /\ [][NextIMs]_vars

\* The controller of n1 reconciles node n2, which the controller of n2 has
\* given a disk status and a MountPropagation condition, while the manager
\* pod and the Kubernetes node of n2 change, the cordon setting changes and
\* n2 is deleted.
OtherNode0 ==
  [Node0 EXCEPT
     !.disks = [id \in {"d2"} |-> DiskSpec0],
     !.status.conds.MountPropagation =
        [status |-> "True", reason |-> "", message |-> NoMessage],
     !.status.diskStatus =
        [id \in {"d2"} |->
           [DiskStatus0 EXCEPT
              !.uuid = MaxUUID + 1, !.max = 100, !.avail = 50,
              !.conds.Ready = [status |-> "True", reason |-> "",
                               message |-> Message("is ready", <<>>)],
              !.conds.Schedulable = [status |-> "True", reason |-> "",
                                     message |-> Message("is schedulable", <<>>)]]]]

OtherFailPoints == {"GetSettingAsBool", "topologyLabelsChecker", "UpdateNodeStatus"}

NextOther ==
  \/ \E v \in PodValues : PodChange("n2", v)
  \/ \E v \in KubeValues : KubeChange("n2", v)
  \/ \E v \in BOOLEAN : SettingCordon(v)
  \/ MarkDeleted("n2")
  \/ SyncNode("n2")
  \/ SyncNodeFailing("n2", OtherFailPoints)

SpecOther ==
  /\ InitCluster([n \in NodeNames |->
                    IF n = controllerID
                    THEN [Node0 EXCEPT !.disks = [id \in {"d1"} |-> DiskSpec0]]
                    ELSE OtherNode0],
                 OwnFsid)
  /\ [][NextOther]_vars

\* The workers of the controller of n1 take the keys of both nodes from the
\* queue while watch events enqueue them and the config file of d1, the disk
\* of n1, disappears.
NextSerial ==
  \/ \E n \in NodeNames : NodeEvent(n)
  \/ \E n \in NodeNames : DelayElapsed(n)
  \/ \E w \in Workers : Get(w)
  \/ \E w \in Workers : Process(w)
  \/ ConfigChange("d1", ConfigNotFound)

SpecSerial == InitWith({"d1"}, OwnFsid) /\ [][NextSerial]_vars

\* The owning controller reconciles n1 while the free space of its disk d1,
\* the reservation of d1 and StorageMinimalAvailablePercentage change
\* (sizes in GiB).
PressureProbes == {ProbeErr} \cup {ProbeOK("f1", avail) : avail \in {5, 20, 50}}

NextPressure ==
  \/ \E v \in PressureProbes : ProbeChange("d1", v)
  \/ \E v \in {0, 10, 30} : SetReserved(controllerID, "d1", v)
  \/ \E v \in {20, 25} : SettingPercentage(v)
  \/ SyncNode(controllerID)

SpecPressure == InitWith({"d1"}, OwnFsid) /\ [][NextPressure]_vars

\* The five informers deliver notifications to the controller of n1; the
\* storage node n2 exists or not (a Kubernetes node without storage node).
NextEvents ==
  \/ \E n \in NodeNames : NodeEvent(n)
  \/ \E k \in Kinds, s \in SettingNames, f \in {"none", "ListNodes"} :
       SettingEvent(k, s, f)
  \/ \E k \in Kinds, n \in NodeNames \cup {""}, f \in {"none", "GetNode"} :
       ReplicaEvent(k, n, f)
  \/ \E k \in Kinds, c \in PodContainers, f \in {"none", "ListNodes"} :
       PodEvent(k, c, f)
  \/ \E k \in Kinds, n \in NodeNames, f \in {"none", "GetNode"} :
       KubeNodeEvent(k, n, f)
  \/ \E n \in NodeNames : DelayElapsed(n)

SpecEvents ==
  /\ \E other \in {Node0, NoNode} :
       InitCluster([n \in NodeNames |-> IF n = controllerID THEN Node0 ELSE other],
                   OwnFsid)
  /\ [][NextEvents]_vars

\* Run is called for the controller of n1: the caches sync, the stop
\* channel closes, the workers start and take the key of n1.  A queue that
\* is shut down drops what is added to it.
RunStep ==
  \/ WaitForCacheSyncTrue
  \/ WaitForCacheSyncFalse
  \/ StartWorkers
  \/ RunStopped

NextRun ==
  \/ \E i \in Informers : CacheSynced(i)
  \/ CloseStop
  \/ RunStep
  \/ \E w \in Workers : Until(w)
  \/ ~run.shutdown /\ NodeEvent(controllerID)
  \/ ~run.shutdown /\ DelayElapsed(controllerID)
  \/ \E w \in Workers : Get(w)
  \/ \E w \in Workers : GetQuit(w)
  \/ \E w \in Workers : Process(w)

SpecRun ==
  /\ InitControlled([n \in NodeNames |-> Node0], OwnFsid, "none", RunCalled)
  /\ [][NextRun]_vars
  /\ WF_vars(RunStep)

\* SpecRun with every worker goroutine scheduled: a worker at the head of
\* wait.Until, in queue.Get() with a key or a shut-down queue, or inside
\* syncNode takes its next step.
\* Process(w) is enabled whenever pc[w] = "sync" and is the only step that
\* changes pc[w] then, so its weak fairness is that no worker stays inside
\* syncNode for ever.
SpecDrain ==
  /\ SpecRun
  /\ \A w \in Workers :
        /\ WF_vars(Until(w))
        /\ WF_vars(Get(w) \/ GetQuit(w))
        /\ []<>(pc[w] # "sync")

\* The data store writes while the lister lags behind the API server.
NextWrites ==
  \/ \E op \in UpdateOps, apiErr \in BOOLEAN, c \in Caches :
       DataStoreWrite(UpdateWrite(op, apiErr, c))
  \/ \E op \in CreateOps, apiErr \in BOOLEAN, skip \in BOOLEAN, c \in Caches :
       DataStoreWrite(CreateWrite(op, apiErr, skip, c))

SpecWrites == InitWith({}, OwnFsid) /\ [][NextWrites]_vars

\* The owning controller reconciles n1 while its manager pod, its Kubernetes
\* node record, the cordon setting and the free space of its disk d1
\* change.  The pod may list no PodReady condition or be in a phase other
\* than Running; the Kubernetes node may list a pressure condition before
\* or after its Ready condition.
HealthPods ==
  PodValues \cup {[Pod0 EXCEPT !.ready = "absent"],
                  [Pod0 EXCEPT !.phase = "Pending"]}

HealthKubes ==
  KubeValues \cup
  {[Kube0 EXCEPT !.conds = <<[type |-> "Ready", status |-> "False"],
                             [type |-> "DiskPressure", status |-> "True"]>>],
   [Kube0 EXCEPT !.conds = <<[type |-> "DiskPressure", status |-> "True"],
                             [type |-> "Ready", status |-> "False"]>>],
   [Kube0 EXCEPT !.conds = <<[type |-> "MemoryPressure", status |-> "True"],
                             [type |-> "Ready", status |-> "True"]>>],
   [Kube0 EXCEPT !.conds = <<[type |-> "Ready", status |-> "Unknown"]>>,
                 !.unsched = TRUE]}

HealthProbes == {ProbeOK("f1", avail) : avail \in {5, 50}}

NextHealth ==
  \/ \E v \in HealthPods : PodChange(controllerID, v)
  \/ \E v \in HealthKubes : KubeChange(controllerID, v)
  \/ \E v \in BOOLEAN : SettingCordon(v)
  \/ \E v \in HealthProbes : ProbeChange("d1", v)
  \/ SyncNode(controllerID)

SpecHealth == InitWith({"d1"}, OwnFsid) /\ [][NextHealth]_vars

\* The controller of n1 reconciles both nodes while replicas come and go on
\* them and the nodes are deleted through the API; the Update call that
\* removes the finalizer may fail.
ReplicaValues ==
  {[name |-> "r1", node |-> "n1", disk |-> "d1", size |-> 10],
   [name |-> "r2", node |-> "n2", disk |-> "d1", size |-> 10]}

NextDelete ==
  \/ \E r \in ReplicaValues : ReplicaCreate(r)
  \/ \E r \in ReplicaValues : ReplicaDelete(r)
  \/ \E n \in NodeNames : MarkDeleted(n)
  \/ \E n \in NodeNames : SyncNode(n)
  \/ \E n \in NodeNames : SyncNodeFailing(n, {"RemoveFinalizerForNode"})
  \/ \E v \in PodValues : PodChange(controllerID, v)

SpecDelete == InitWith({"d1"}, OwnFsid) /\ [][NextDelete]_vars

\* The owning controller reconciles n1 while other filesystems are mounted
\* at the paths of its disks, the probes of the disks fail and recover and
\* disks are added to and removed from Spec.Disks.
NextSwap ==
  \/ \E d \in DiskIDs, f \in Fsids : Remount(d, f)
  \/ \E d \in DiskIDs : ProbeChange(d, ProbeErr)
  \/ \E ids \in SUBSET DiskIDs : SetDisks(controllerID, ids)
  \/ SyncNode(controllerID)

SpecSwap == InitWith({"d1"}, OwnFsid) /\ [][NextSwap]_vars

\* The owning controller reconciles n1 during the rollout of the default
\* image v2: the instances of its managers start, run and stop, managers
\* are deleted by others and finalized, and a disk is added to n1.
RolloutStatusValues ==
  IMStatusValues \cup
  {[state |-> "Running", instances |-> {"Starting"}],
   [state |-> "Running", instances |-> {"Stopped"}],
   [state |-> "Running", instances |-> {}]}

NextRollout ==
  \/ \E ids \in {{}, {"d1"}} : SetDisks(controllerID, ids)
  \/ SettingImage("v2")
  \/ \E name \in IMNames : \E v \in RolloutStatusValues : IMStatus(name, v)
  \/ \E name \in IMNames : IMMarkDeleted(name)
  \/ \E name \in IMNames : IMFinalize(name)
  \/ SyncNode(controllerID)

SpecRollout == InitWith({}, OwnFsid) /\ [][NextRollout]_vars

\* One worker of the controller of n1 takes the key of n1 from the queue
\* while watch events enqueue it, a disk is added to n1 and Spec.NodeID of
\* its instance managers is edited.
NextLabel ==
  \/ NodeEvent(controllerID)
  \/ DelayElapsed(controllerID)
  \/ Get("w1")
  \/ Process("w1")
  \/ \E ids \in {{}, {"d1"}} : SetDisks(controllerID, ids)
  \/ \E name \in IMNames : \E v \in NodeNames : IMSetNodeID(name, v)

SpecLabel == InitWith({}, OwnFsid) /\ [][NextLabel]_vars

\* The owning controller reconciles n1 while replicas are created and
\* deleted on its disks d1 and d2, on a disk it does not declare and on the
\* other node, and d2 is added to and removed from Spec.Disks.
ScheduledReplicas ==
  {[name |-> "r1", node |-> "n1", disk |-> "d1", size |-> 10],
   [name |-> "r2", node |-> "n1", disk |-> "d1", size |-> 10],
   [name |-> "r3", node |-> "n1", disk |-> "d2", size |-> 30],
   [name |-> "r4", node |-> "n2", disk |-> "d1", size |-> 40]}

NextScheduled ==
  \/ \E r \in ScheduledReplicas :
       r.disk \in DOMAIN node[r.node].disks /\ ReplicaCreate(r)
  \/ \E r \in ScheduledReplicas :
       r.disk \in DOMAIN node[r.node].disks /\ ReplicaDelete(r)
  \/ \E r \in ScheduledReplicas : StrayReplica(r)
  \/ \E ids \in {{"d1"}, {"d1", "d2"}} : SetDisks(controllerID, ids)
  \/ SyncNode(controllerID)
  \/ SyncNodeFailing(controllerID, {"ListReplicasByNode"})

SpecScheduled == InitWith({"d1"}, OwnFsid) /\ [][NextScheduled]_vars

\* The owning controller reconciles n1 while the volume mount longhorn-system
\* of the first container of its manager pod changes its MountPropagation
\* (Bidirectional, another mode, nil) or is not listed at all, and the
\* Kubernetes node record and the cordon setting change.
MountPods ==
  {Pod0,
   [Pod0 EXCEPT !.mount = "HostToContainer"],
   [Pod0 EXCEPT !.mount = "nil"],
   [Pod0 EXCEPT !.mount = "absent"],
   [Pod0 EXCEPT !.exists = FALSE]}

NextMount ==
  \/ \E v \in MountPods : PodChange(controllerID, v)
  \/ \E v \in KubeValues : KubeChange(controllerID, v)
  \/ \E v \in BOOLEAN : SettingCordon(v)
  \/ SyncNode(controllerID)

SpecMount == InitWith({"d1"}, OwnFsid) /\ [][NextMount]_vars

\* ------------------------------------------------------------------ claims
\* The pass that has just returned was a reconcile of node n whose result is
\* the stored status: syncNode returned no error and the status it computed
\* is the one the API server holds (written, or equal to what was there).
Reconciled(n) ==
  /\ last.key = n
  /\ last.path \in {"owner", "other"}
  /\ last.err = "nil"
  /\ ~last.requeued

DiskReady(n, id) ==
  GetCondition(node[n].status.diskStatus[id].conds, "Ready")

\* C1: after any reconcile of a node, among the disks of that node whose
\* probes report the same fsid at most one has Ready = True.
C1_OneReadyDiskPerFsid ==
  Reconciled(controllerID) =>
    \A a, b \in DOMAIN node[controllerID].status.diskStatus :
       (/\ a # b
        /\ ~probe[a].err /\ ~probe[b].err
        /\ probe[a].fsid = probe[b].fsid)
       => ~(/\ DiskReady(controllerID, a).status = "True"
            /\ DiskReady(controllerID, b).status = "True")

\* C2: the disk's config file is missing or carries another UUID than the
\* one recorded for the disk.
ConfigMismatch(n, id) ==
  \/ config[id].err = "notfound"
  \/ config[id].err = "nil" /\ config[id].uuid # node[n].status.diskStatus[id].uuid

MarkedFilesystemChanged(n, id) ==
  /\ DiskReady(n, id).status = "False"
  /\ DiskReady(n, id).reason = "DiskFilesystemChanged"
  /\ node[n].status.diskStatus[id].max = 0
  /\ node[n].status.diskStatus[id].avail = 0

\* No step changes a recorded DiskUUID of a disk that stays in Spec.Disks.
UUIDKept(n) ==
  \A id \in DOMAIN node[n].disks \cap DOMAIN node'[n].disks :
     (id \in DOMAIN node[n].status.diskStatus
        /\ node[n].status.diskStatus[id].uuid # NoUUID)
     => /\ id \in DOMAIN node'[n].status.diskStatus
        /\ node'[n].status.diskStatus[id].uuid = node[n].status.diskStatus[id].uuid

\* C2 as stated: a recorded DiskUUID is never changed, and after a reconcile
\* a disk with a recorded UUID whose config is missing or carries another
\* UUID is Ready = False with reason DiskFilesystemChanged and has
\* StorageMaximum = StorageAvailable = 0.
C2_RecordedUUIDMismatch ==
  /\ [][UUIDKept(controllerID)]_vars
  /\ [](Reconciled(controllerID) =>
          \A id \in DOMAIN node[controllerID].status.diskStatus :
             (node[controllerID].status.diskStatus[id].uuid # NoUUID
                /\ ConfigMismatch(controllerID, id))
             => MarkedFilesystemChanged(controllerID, id))

\* C2 for the disks whose probe succeeds: a recorded DiskUUID is never
\* changed, and after a reconcile a disk with a recorded UUID whose probe
\* succeeded and whose config is missing or carries another UUID is
\* Ready = False with reason DiskFilesystemChanged and has zero storage
\* figures.
C2_RecordedUUIDMismatchProbed ==
  /\ [][UUIDKept(controllerID)]_vars
  /\ [](Reconciled(controllerID) =>
          \A id \in DOMAIN node[controllerID].status.diskStatus :
             (node[controllerID].status.diskStatus[id].uuid # NoUUID
                /\ ~probe[id].err
                /\ ConfigMismatch(controllerID, id))
             => MarkedFilesystemChanged(controllerID, id))

\* A reconcile has met a probed disk with a recorded UUID and another UUID
\* in its config file.
C2_Witness ==
  /\ Reconciled(controllerID)
  /\ \E id \in DOMAIN node[controllerID].status.diskStatus :
        /\ node[controllerID].status.diskStatus[id].uuid # NoUUID
        /\ ~probe[id].err
        /\ config[id].err = "nil"
        /\ config[id].uuid # node[controllerID].status.diskStatus[id].uuid
        /\ MarkedFilesystemChanged(controllerID, id)

DiskKeysInSync(n) ==
  DOMAIN node[n].status.diskStatus = DOMAIN node[n].disks

\* C3 as stated: after any successful reconcile of a node the keys of
\* Status.DiskStatus are the keys of Spec.Disks.
C3_DiskKeys ==
  \A n \in NodeNames : Reconciled(n) => DiskKeysInSync(n)

\* C3 for the controller that owns the node: after a successful reconcile
\* of the node the controller runs on, the keys of Status.DiskStatus are
\* the keys of Spec.Disks.
C3_DiskKeysOwner ==
  (Reconciled(controllerID) /\ last.path = "owner") => DiskKeysInSync(controllerID)

\* A reconcile by the owner has dropped the entry of d1 and added one for d2.
C3_Witness ==
  /\ Reconciled(controllerID)
  /\ last.path = "owner"
  /\ last.stored
  /\ DOMAIN node[controllerID].status.diskStatus = {"d2"}

\* The instance-manager types a node needs.
NeededTypes(n) ==
  IF DOMAIN node[n].disks = {} THEN {"engine"} ELSE {"engine", "replica"}

IMsOf(n, imType) == {im \in ims : im.nodeID = n /\ im.type = imType}

DefaultIMs(n, imType) ==
  {im \in IMsOf(n, imType) : im.image = setting.defaultImage}

BusyOldIMs(n, imType) ==
  {im \in IMsOf(n, imType) :
     im.image # setting.defaultImage /\ im.instances \cap LiveInstanceStates # {}}

C5_NoReplicaManager ==
  \A n \in NodeNames :
     (Reconciled(n) /\ DOMAIN node[n].disks = {}) => IMsOf(n, "replica") = {}

\* C5 for the controller that owns the node: after a successful reconcile
\* of the node the controller runs on, with Spec.Disks empty, every replica
\* instance manager of the node that the cache lists is marked for deletion
\* (so none was created).
C5_ReplicaManagersDeleted ==
  (Reconciled(controllerID) /\ last.path = "owner"
     /\ DOMAIN node[controllerID].disks = {}) =>
     \A im \in IMsOf(controllerID, "replica") : im.cached => im.deleting

\* A reconcile of the node without disks has marked a running replica
\* manager with a running instance for deletion.
C5_Witness ==
  /\ Reconciled(controllerID)
  /\ last.path = "owner"
  /\ DOMAIN node[controllerID].disks = {}
  /\ \E im \in IMsOf(controllerID, "replica") :
        /\ im.deleting
        /\ im.state = "Running"
        /\ im.instances = {"Running"}
        /\ im.image = setting.defaultImage

\* A pass has just returned.
PassDone == last.key # NoKey

\* A step of the pass before the deferred status write returned an error.
EarlierFailed == last.failed \notin {"none", "UpdateNodeStatus", "Conflict"}

\* C8: syncNode calls UpdateNodeStatus exactly when no earlier step of the
\* pass returned an error and the status differs from the snapshot; a pass
\* in which an earlier step failed leaves the stored node status as it was.
C8_StatusWrite ==
  /\ [](PassDone => (last.called <=> (~EarlierFailed /\ last.changed)))
  /\ [][(PassDone /\ EarlierFailed)' =>
          node'[last'.key].status = node[last'.key].status]_vars

\* A pass has changed the status in memory, then a step failed, and the
\* status was not written.
C8_Witness ==
  /\ PassDone
  /\ EarlierFailed
  /\ last.changed
  /\ ~last.called
  /\ last.err # "nil"

HandleErrEvents == {e \in last.events : e[1] = "handleErr"}

\* What handleErr does with an error: a rate-limited re-add while
\* NumRequeues(key) < maxRetries, else Forget without a re-add.
RetryRule ==
  (PassDone /\ last.err # "nil") =>
     IF last.numRequeues < maxRetries
     THEN /\ last.handled = "retry"
          /\ last.key \in waiting
          /\ requeues[last.key] = last.numRequeues + 1
     ELSE /\ last.handled = "drop"
          /\ requeues[last.key] = 0

\* The pass that drops the key adds nothing to the queue.
DropAddsNothing ==
  (PassDone /\ last.handled = "drop")' => waiting' = waiting

\* C9 as stated: a failing key is re-added rate-limited only while
\* NumRequeues(key) < maxRetries; then it is forgotten, not re-added, and
\* the error is handed to the event recorder.
C9_RetryBoundEvent ==
  /\ []RetryRule
  /\ [][DropAddsNothing]_vars
  /\ []((PassDone /\ last.handled = "drop") => HandleErrEvents # {})

\* C9 with the error reported through utilruntime.HandleError: a failing
\* key is re-added rate-limited only while NumRequeues(key) < maxRetries;
\* then it is forgotten, not re-added, the error is passed to
\* utilruntime.HandleError and no event is recorded for it.
C9_RetryBoundReported ==
  /\ []RetryRule
  /\ [][DropAddsNothing]_vars
  /\ []((PassDone /\ last.handled = "drop") =>
          (last.reported = last.err /\ HandleErrEvents = {}))
  /\ []((PassDone /\ last.handled # "drop") => last.reported = "nil")

\* The key has failed with NumRequeues(key) = maxRetries and was dropped.
C9_Witness ==
  /\ PassDone
  /\ last.handled = "drop"
  /\ last.numRequeues = maxRetries
  /\ requeues[last.key] = 0
  /\ last.reported # "nil"

\* C10: every failure inside a reconcile other than GetNode not-found and
\* a write conflict reaches handleErr as an error and is retried while the
\* bound is not reached, a failed finalizer removal included; GetNode
\* not-found ends the pass with no error and no retry.
C10_FailuresReachHandleErr ==
  /\ (PassDone /\ last.failed \notin {"none", "Conflict"}) =>
        /\ last.err # "nil"
        /\ last.numRequeues < maxRetries => last.handled = "retry"
  /\ (PassDone /\ last.path = "notfound") =>
        (last.err = "nil" /\ last.handled = "forget")

\* The workers that are inside syncNode(key).
Syncing(key) == {w \in Workers : pc[w] = "sync" /\ wkey[w] = key}

QueuedAt(key) == {i \in DOMAIN queue : queue[i] = key}

\* C6: no two workers run syncNode on one key at the same time; a key added
\* while it is processed is pending once, outside the queue, and is
\* delivered again only after Done(key), which puts it back in the queue.
C6_OneReconcilePerKey ==
  /\ [](\A key \in NodeNames :
          /\ Cardinality(Syncing(key)) <= 1
          /\ Cardinality(QueuedAt(key)) <= 1
          /\ Syncing(key) # {} => QueuedAt(key) = {})
  /\ [][\A w \in Workers : \A key \in NodeNames :
          (pc[w] = "sync" /\ wkey[w] = key /\ pc'[w] = "idle" /\ key \in dirty)
          => (QueuedAt(key) # {})']_vars

\* A key was added again while a worker processes it and the other worker
\* is idle: the key is pending (dirty) and not in the queue.
C6_Witness ==
  \E key \in NodeNames :
     /\ Cardinality(Syncing(key)) = 1
     /\ key \in dirty
     /\ QueuedAt(key) = {}
     /\ \E w \in Workers : pc[w] = "idle"

\* The pass that has just returned met a conflict on its status write.
ConflictPass(key) == last.key = key /\ last.failed = "Conflict"

\* C7: on a conflict of the deferred status write syncNode returns no
\* error, the status is not applied, the key is enqueued again, handleErr
\* forgets the key (the conflict does not count towards maxRetries), and
\* the node is reconciled again afterwards.
C7_ConflictRequeue ==
  /\ [](ConflictPass(controllerID) =>
          /\ last.err = "nil"
          /\ last.called /\ ~last.stored
          /\ last.requeued
          /\ controllerID \in waiting
          /\ last.handled = "forget"
          /\ requeues[controllerID] = 0)
  /\ [][ConflictPass(controllerID)' =>
          node'[controllerID].status = node[controllerID].status]_vars
  /\ (ConflictPass(controllerID) ~> Syncing(controllerID) # {})

\* A pass has met a conflict: the key waits for its delay and no worker
\* holds it.
C7_Witness ==
  /\ ConflictPass(controllerID)
  /\ last.changed
  /\ controllerID \in waiting
  /\ Syncing(controllerID) = {}

\* A pass of the controller of n1 over another node has just returned: the
\* step from the state before it to the state after it.
OtherPass(n) == (PassDone /\ last.key = n)' /\ n # controllerID

\* The pass left every part of the node object of n as it was, but for the
\* Ready and Schedulable conditions of the node.
OnlyReadyAndSchedulable(n) ==
  /\ node'[n].exists = node[n].exists
  /\ node'[n].deleting = node[n].deleting
  /\ node'[n].finalizer = node[n].finalizer
  /\ node'[n].disks = node[n].disks
  /\ node'[n].status.diskStatus = node[n].status.diskStatus
  /\ node'[n].status.conds.MountPropagation = node[n].status.conds.MountPropagation

\* The pass probed no disk, read and wrote no disk config file and created
\* and deleted no instance manager.
NoOwnerWork ==
  /\ last'.calls = {}
  /\ config' = config /\ nextUUID' = nextUUID
  /\ ims' = ims /\ nextIM' = nextIM

\* C11 as stated: a reconcile by a controller whose controllerID differs
\* from the node name changes only the Ready and Schedulable conditions of
\* the node (DiskStatus and MountPropagation stay), probes no disk, reads
\* and writes no disk config file, creates and deletes no instance manager.
C11_OtherNodeFrame ==
  [][\A n \in NodeNames :
       OtherPass(n) => (OnlyReadyAndSchedulable(n) /\ NoOwnerWork)]_vars

\* C11 for a node without a deletion timestamp: a reconcile by a controller
\* whose controllerID differs from the node name changes only the Ready and
\* Schedulable conditions of the node; on any node, marked for deletion or
\* not, it probes no disk, reads and writes no disk config file, creates
\* and deletes no instance manager.
C11_OtherNodeFrameLive ==
  [][\A n \in NodeNames :
       OtherPass(n) =>
         /\ NoOwnerWork
         /\ ~node[n].deleting => OnlyReadyAndSchedulable(n)]_vars

\* A pass over n2 has stored Ready = False for it and has left its disk
\* status and its MountPropagation condition as the controller of n2 wrote
\* them.
C11_Witness ==
  /\ PassDone /\ last.key = "n2" /\ last.path = "other" /\ last.stored
  /\ node["n2"].status.conds.Ready.status = "False"
  /\ node["n2"].status.conds.MountPropagation.status = "True"
  /\ node["n2"].status.diskStatus = OtherNode0.status.diskStatus

\* The disks for which the pass that has just returned called
\* generateDiskConfig.
Generated == {c[2] : c \in {x \in last.calls : x[1] = "generateDiskConfig"}}

\* C12: generateDiskConfig is called only in a pass of the controller whose
\* controllerID is the node name, a pass over another node leaves every
\* disk config file as it is, and no two workers are inside syncNode for
\* the same node at the same time, so no two disk-sync passes of a node
\* overlap.
C12_ConfigWritesSerialized ==
  /\ [](Generated # {} => (last.key = controllerID /\ last.path = "owner"))
  /\ [][(PassDone /\ last.key # controllerID)' =>
          (config' = config /\ nextUUID' = nextUUID)]_vars
  /\ [](\A key \in NodeNames : Cardinality(Syncing(key)) <= 1)

\* A worker is inside the pass of n1 that will generate the config file of
\* d1, the key of n1 was added again meanwhile, and the other worker is
\* idle: the key is held back until the pass is done.
C12_Witness ==
  /\ Cardinality(Syncing(controllerID)) = 1
  /\ GenerateCandidates(controllerID) # {}
  /\ node[controllerID].status.diskStatus = <<>>
  /\ controllerID \in dirty
  /\ \E w \in Workers : pc[w] = "idle"

\* The events of the pass that has just returned for the condition `type`
\* at the place `where` ("node" or a disk id).
EventsFor(where, type) == {e \in last.events : e[2] = where /\ e[3] = type}

SameStatusAndMessage(old, new) ==
  old.status = new.status /\ old.message = new.message

\* C13: a pass that leaves a condition (node Ready, node Schedulable, disk
\* Ready, disk Schedulable) with the status and the message it had at the
\* start of the pass emits no event for that condition.
C13_NoEventWithoutChange ==
  [][\A n \in NodeNames :
       ((PassDone /\ last.key = n)' /\ node[n].exists /\ node'[n].exists) =>
         /\ \A type \in {"Ready", "Schedulable"} :
               SameStatusAndMessage(node[n].status.conds[type],
                                    node'[n].status.conds[type])
               => EventsFor("node", type)' = {}
         /\ \A id \in DOMAIN node[n].status.diskStatus
                          \cap DOMAIN node'[n].status.diskStatus :
               \A type \in {"Ready", "Schedulable"} :
                  SameStatusAndMessage(node[n].status.diskStatus[id].conds[type],
                                       node'[n].status.diskStatus[id].conds[type])
                  => EventsFor(id, type)' = {}]_vars

\* A pass without an error has found the status as it was, performed no
\* status write, and has recorded events for the Ready condition.
C13_RepeatedReadyEvents ==
  /\ PassDone /\ last.err = "nil" /\ last.failed = "none"
  /\ ~last.changed /\ ~last.called
  /\ EventsFor("node", "Ready") # {}

\* The pass that has just returned was a reconcile of node n without an
\* error in which no call of generateDiskConfig failed.
CleanPass(n) ==
  /\ Reconciled(n)
  /\ last.failed = "none"
  /\ \A id \in Generated : config[id].err = "nil"

IMCalls ==
  {c \in last.calls : c[1] \in {"CreateInstanceManager", "DeleteInstanceManager"}}

\* C14: when syncNode runs twice in succession for a node, with nothing
\* changed in between and no error in either pass, the second pass changes
\* no field of node.Status, performs no status write and issues no
\* instance-manager create or delete.
C14_SecondPassChangesNothing ==
  [][\A n \in NodeNames :
       (CleanPass(n) /\ CleanPass(n)') =>
         /\ node'[n].status = node[n].status
         /\ ~last'.called
         /\ IMCalls' = {}]_vars

\* The bound that the free space of disk id of node n must reach: the
\* larger of StorageReserved and StorageMaximum * percentage / 100.
PressureBound(n, id) ==
  Max(node[n].disks[id].reserved,
      (node[n].status.diskStatus[id].max * setting.minimalAvailablePercentage)
         \div 100)

DiskSchedulable(n, id) ==
  GetCondition(node[n].status.diskStatus[id].conds, "Schedulable")

\* C15: after a reconcile by the owner the Schedulable condition of a disk
\* is True iff StorageAvailable >= max(StorageReserved, StorageMaximum *
\* StorageMinimalAvailablePercentage / 100), and False with reason
\* DiskPressure otherwise.
C15_DiskPressure ==
  (Reconciled(controllerID) /\ last.path = "owner") =>
     \A id \in DOMAIN node[controllerID].status.diskStatus :
        IF node[controllerID].status.diskStatus[id].avail
             >= PressureBound(controllerID, id)
        THEN DiskSchedulable(controllerID, id).status = "True"
        ELSE /\ DiskSchedulable(controllerID, id).status = "False"
             /\ DiskSchedulable(controllerID, id).reason = "DiskPressure"

\* A reconcile has met a disk with maximum 100, available 5, reserved 10
\* and percentage 20, and has set Schedulable = False.
C15_Witness ==
  /\ Reconciled(controllerID) /\ last.path = "owner"
  /\ node[controllerID].status.diskStatus["d1"].max = 100
  /\ node[controllerID].status.diskStatus["d1"].avail = 5
  /\ node[controllerID].disks["d1"].reserved = 10
  /\ setting.minimalAvailablePercentage = 20
  /\ DiskSchedulable(controllerID, "d1").status = "False"
  /\ DiskSchedulable(controllerID, "d1").reason = "DiskPressure"

\* The step has added exactly the keys S with AddRateLimited.
Enqueues(S) ==
  /\ \A n \in NodeNames :
       IF n \in S
       THEN requeues'[n] = requeues[n] + 1 /\ n \in waiting'
       ELSE requeues'[n] = requeues[n] /\ (n \in waiting' <=> n \in waiting)
  /\ UNCHANGED <<queue, dirty, processing>>

StorageNodes == {n \in NodeNames : node[n].exists}

\* The step is a notification of `informer` of one of the kinds.
Notified(informer, kinds) ==
  last'.event.informer = informer /\ last'.event.kind \in kinds

\* C16: a setting add or update enqueues node keys iff the setting's name
\* is StorageMinimalAvailablePercentage, and then it enqueues every storage
\* node; a change of any other setting enqueues nothing.
C16_SettingEnqueuesAll ==
  [][Notified("setting", {"add", "update"}) =>
       IF last'.event.obj.name = "StorageMinimalAvailablePercentage"
       THEN StorageNodes # {} /\ Enqueues(StorageNodes)
       ELSE Enqueues({})]_vars

\* C16 with the list of nodes taken into account: every storage node is
\* enqueued iff the name is StorageMinimalAvailablePercentage and ListNodes
\* succeeds; when ListNodes fails nothing is enqueued and the error goes to
\* utilruntime.HandleError; any other setting enqueues nothing.
C16_SettingEnqueuesListed ==
  [][Notified("setting", {"add", "update"}) =>
       IF last'.event.obj.name # "StorageMinimalAvailablePercentage"
       THEN Enqueues({}) /\ last'.reported = "nil"
       ELSE IF last'.event.fail = "ListNodes"
       THEN Enqueues({}) /\ last'.reported = "ListNodes"
       ELSE StorageNodes # {} /\ Enqueues(StorageNodes)
              /\ last'.reported = "nil"]_vars

\* An update of StorageMinimalAvailablePercentage has enqueued both storage
\* nodes.
C16_Witness ==
  /\ last.event.informer = "setting" /\ last.event.kind = "update"
  /\ last.event.obj.name = "StorageMinimalAvailablePercentage"
  /\ last.event.fail = "none"
  /\ StorageNodes = NodeNames
  /\ NodeNames \subseteq waiting
  /\ \A n \in NodeNames : requeues[n] = 1

\* C17: every change notification of a Kubernetes node (add, update or
\* delete) enqueues the key of the equally-named storage node when that
\* storage node exists, and enqueues nothing when it does not exist.
C17_KubeNodeEnqueues ==
  [][Notified("kubenode", Kinds) =>
       IF node[last'.event.obj.name].exists
       THEN Enqueues({last'.event.obj.name})
       ELSE Enqueues({})]_vars

HasManagerContainer(containers) ==
  \E i \in 1..Len(containers) : containers[i] = "longhorn-manager"

\* C19: a pod add, update or delete whose spec contains a container named
\* longhorn-manager (at any index) enqueues every storage node; a pod
\* without such a container enqueues nothing.
C19_PodEnqueuesAll ==
  [][Notified("pod", Kinds) =>
       IF HasManagerContainer(last'.event.obj.containers)
       THEN Enqueues(StorageNodes)
       ELSE Enqueues({})]_vars

\* C19 with the list of nodes taken into account: a pod with a container
\* named longhorn-manager enqueues every storage node when ListNodes
\* succeeds; when ListNodes fails nothing is enqueued and the error goes to
\* utilruntime.HandleError; a pod without such a container enqueues nothing.
C19_PodEnqueuesListed ==
  [][Notified("pod", Kinds) =>
       IF ~HasManagerContainer(last'.event.obj.containers)
       THEN Enqueues({}) /\ last'.reported = "nil"
       ELSE IF last'.event.fail = "ListNodes"
       THEN Enqueues({}) /\ last'.reported = "ListNodes"
       ELSE Enqueues(StorageNodes) /\ last'.reported = "nil"]_vars

\* A pod whose second container is longhorn-manager has been added and
\* both storage nodes are waiting in the queue.
C19_Witness ==
  /\ last.event.informer = "pod" /\ last.event.kind = "add"
  /\ last.event.obj.containers = <<"sidecar", "longhorn-manager">>
  /\ last.event.fail = "none"
  /\ StorageNodes = NodeNames
  /\ NodeNames \subseteq waiting
  /\ \A n \in NodeNames : requeues[n] = 1

\* Worker w is inside nc.worker.
InWorker(w) == pc[w] \in {"idle", "sync"}

StoppedBeforeSynced == run.stop /\ run.synced # Informers

\* C20: no worker calls syncNode before all five informer caches report
\* synced; when the stop channel closes before they have synced, Run
\* returns and no worker is ever started.
C20_WorkersAfterCacheSync ==
  /\ [](\A w \in Workers : InWorker(w) => run.synced = Informers)
  /\ [](StoppedBeforeSynced => [](\A w \in Workers : ~InWorker(w)))
  /\ (StoppedBeforeSynced ~> run.at = "returned")

\* The stop channel was closed before every cache had synced: Run has
\* returned and no worker goroutine exists.
C20_Witness ==
  /\ run.at = "returned"
  /\ run.stop
  /\ \E i \in Informers : i \notin run.synced
  /\ \A w \in Workers : pc[w] = "none"

\* A worker is inside syncNode with every cache synced.
C20_WitnessSync ==
  /\ run.synced = Informers
  /\ \E w \in Workers : pc[w] = "sync"

\* Worker w leaves syncNode in this step.
LeavesSync(w) == pc[w] = "sync" /\ pc'[w] # "sync"

\* The step is a whole processNextWorkItem of worker w: syncNode with its
\* deferred status write, handleErr and Done(key).
WholePass(w) ==
  /\ last'.key = wkey[w]
  /\ last'.called <=> (~EarlierFailed' /\ last'.changed)
  /\ last'.stored => node'[wkey[w]].status # node[wkey[w]].status
  /\ wkey[w] \notin processing'
  /\ pc'[w] = "idle"

\* C21: after the stop channel is closed the queue is shut down and every
\* worker eventually leaves its loop; a reconcile in progress at that
\* moment is not interrupted and runs to completion, including its
\* deferred status write and its Done(key).
C21_ShutdownDrains ==
  /\ (run.stop ~> run.shutdown)
  /\ (run.stop ~> \A w \in Workers : pc[w] \in {"none", "done"})
  /\ [][\A w \in Workers : LeavesSync(w) => WholePass(w)]_vars
  /\ \A w \in Workers : ((run.stop /\ pc[w] = "sync") ~> pc[w] = "idle")

\* A reconcile has written the node status and called Done after the stop
\* channel was closed and the queue was shut down.
C21_Witness ==
  /\ run.stop /\ run.shutdown
  /\ PassDone /\ last.called /\ last.stored
  /\ last.key \notin processing

\* The stop channel is closed, the queue is shut down and every worker
\* goroutine has ended after it had been started.
C21_WitnessDone ==
  /\ run.shutdown
  /\ \A w \in Workers : pc[w] = "done"
  /\ processing = {}

\* C22: a data-store write that succeeded on the API server never returns
\* an error because its poll of the lister failed to converge: the poll
\* stops after at most 20 tries and a poll that did not converge is only
\* logged.
C22_PollNotFatal ==
  (last.write.op # "" /\ last.write.stored) =>
     /\ last.write.err = "nil"
     /\ last.write.tries <= 20

\* The same for the writes that end in verifyUpdate.
C22_UpdatePollNotFatal ==
  (last.write.op \in UpdateOps /\ last.write.stored) =>
     /\ last.write.err = "nil"
     /\ last.write.tries <= 20
     /\ ~last.write.verified => last.write.logged

\* The Ready condition of node n as stored.
NodeReady(n) == GetCondition(node[n].status.conds, "Ready")

\* What the Kubernetes node record of n says, whatever the order of its
\* conditions.
KubePressure(n) ==
  \E i \in DOMAIN kube[n].conds :
     kube[n].conds[i].type \in PressureTypes /\ kube[n].conds[i].status = "True"

KubeNotReady(n) ==
  \E i \in DOMAIN kube[n].conds :
     kube[n].conds[i].type = "Ready" /\ kube[n].conds[i].status # "True"

KubeHealthy(n) == kube[n].exists /\ ~KubePressure(n) /\ ~KubeNotReady(n)

\* The manager pod of n exists and is ready.
PodIsReady(n) ==
  pod[n].exists /\ pod[n].ready = "True" /\ pod[n].phase = "Running"

\* C23: after a pass the reason of the node Ready condition is the worst
\* one, whatever the order in which the Kubernetes node lists its
\* conditions: KubernetesNodeGone when the Kubernetes node is not found,
\* otherwise KubernetesNodePressure when a pressure condition is True,
\* otherwise KubernetesNodeNotReady when NodeReady is not True, otherwise
\* the verdict of the manager pod.
C23_WorstReasonSurvives ==
  \A n \in NodeNames :
     Reconciled(n) =>
       IF ~kube[n].exists
       THEN NodeReady(n).status = "False" /\ NodeReady(n).reason = "KubernetesNodeGone"
       ELSE IF KubePressure(n)
       THEN NodeReady(n).status = "False" /\ NodeReady(n).reason = "KubernetesNodePressure"
       ELSE IF KubeNotReady(n)
       THEN NodeReady(n).status = "False" /\ NodeReady(n).reason = "KubernetesNodeNotReady"
       ELSE /\ PodIsReady(n) => NodeReady(n).status = "True"
            /\ ~pod[n].exists => NodeReady(n).reason = "ManagerPodMissing"

\* The part of C23 that does not rest on the order of the list: the last
\* setter of the pass wins, so a Kubernetes node that is gone, or whose
\* last listed unhealthy condition is a pressure (a not-True Ready), ends
\* the pass with that reason whatever the manager pod says.
C23_LastSetterWins ==
  \A n \in NodeNames :
     Reconciled(n) =>
       /\ ~kube[n].exists =>
            NodeReady(n).status = "False" /\ NodeReady(n).reason = "KubernetesNodeGone"
       /\ (kube[n].exists /\ (KubePressure(n) \/ KubeNotReady(n))) =>
            /\ NodeReady(n).status = "False"
            /\ NodeReady(n).reason \in {"KubernetesNodePressure", "KubernetesNodeNotReady"}
       /\ (kube[n].exists /\ KubePressure(n) /\ ~KubeNotReady(n)) =>
            NodeReady(n).reason = "KubernetesNodePressure"
       /\ (kube[n].exists /\ KubeNotReady(n) /\ ~KubePressure(n)) =>
            NodeReady(n).reason = "KubernetesNodeNotReady"

\* C24: when the Kubernetes node is healthy, a pass over a node whose
\* manager pod exists but is not ready (its Ready condition is not True or
\* is absent from the conditions of the pod, or its phase is not Running)
\* ends with Ready = False and reason ManagerPodDown, so that no Ready =
\* True of an earlier pass survives it; a pass over a node without manager
\* pod ends with Ready = False and reason ManagerPodMissing.
C24_PodNotReady ==
  \A n \in NodeNames :
     (Reconciled(n) /\ KubeHealthy(n)) =>
        /\ (pod[n].exists /\ ~PodIsReady(n)) =>
              NodeReady(n).status = "False" /\ NodeReady(n).reason = "ManagerPodDown"
        /\ ~pod[n].exists =>
              NodeReady(n).status = "False" /\ NodeReady(n).reason = "ManagerPodMissing"

\* The same for the pods that list a PodReady condition.
C24_PodWithReadyCondition ==
  \A n \in NodeNames :
     (Reconciled(n) /\ KubeHealthy(n)) =>
        /\ (pod[n].exists /\ pod[n].ready # "absent" /\ ~PodIsReady(n)) =>
              NodeReady(n).status = "False" /\ NodeReady(n).reason = "ManagerPodDown"
        /\ ~pod[n].exists =>
              NodeReady(n).status = "False" /\ NodeReady(n).reason = "ManagerPodMissing"

\* A pass over a node whose manager pod lists no PodReady condition has
\* left Ready = True.
C24_StaleReady ==
  /\ Reconciled(controllerID) /\ KubeHealthy(controllerID)
  /\ pod[controllerID].exists /\ pod[controllerID].ready = "absent"
  /\ NodeReady(controllerID).status = "True"

\* The Schedulable condition of node n as stored.
NodeSchedulable(n) == GetCondition(node[n].status.conds, "Schedulable")

\* The scheduling info of disk id of node n as stored: capacity figures,
\* the reservation and the percentage setting.
StoredInfo(n, id) ==
  [max |-> node[n].status.diskStatus[id].max,
   avail |-> node[n].status.diskStatus[id].avail,
   reserved |-> node[n].disks[id].reserved,
   pct |-> setting.minimalAvailablePercentage]

\* C25: whenever the Kubernetes node exists, after the pass the node has
\* Schedulable = False with reason KubernetesNodeCordoned iff the setting
\* DisableSchedulingOnCordonedNode is true and spec.unschedulable of the
\* Kubernetes node is true, and Schedulable = True otherwise; the
\* Schedulable conditions of the disks of the node follow from the capacity
\* alone, cordoned or not.
C25_Cordon ==
  \A n \in NodeNames :
     (Reconciled(n) /\ kube[n].exists) =>
        /\ IF setting.cordon /\ kube[n].unsched
           THEN /\ NodeSchedulable(n).status = "False"
                /\ NodeSchedulable(n).reason = "KubernetesNodeCordoned"
           ELSE NodeSchedulable(n).status = "True"
        /\ last.path = "owner" =>
              \A id \in DOMAIN node[n].status.diskStatus :
                 DiskSchedulable(n, id).status =
                    IF IsSchedulableToDisk(0, StoredInfo(n, id)) THEN "True" ELSE "False"

\* A pass has cordoned the node and has left its disk d1, which has room,
\* schedulable.
C25_Witness ==
  /\ Reconciled(controllerID) /\ last.path = "owner"
  /\ setting.cordon /\ kube[controllerID].exists /\ kube[controllerID].unsched
  /\ NodeSchedulable(controllerID).reason = "KubernetesNodeCordoned"
  /\ DiskReady(controllerID, "d1").status = "True"
  /\ DiskSchedulable(controllerID, "d1").status = "True"

\* A pass has left the node schedulable, the Kubernetes node being
\* unschedulable and the setting off, while its disk d1 is under pressure.
C25_WitnessPressure ==
  /\ Reconciled(controllerID) /\ last.path = "owner"
  /\ ~setting.cordon /\ kube[controllerID].exists /\ kube[controllerID].unsched
  /\ NodeSchedulable(controllerID).status = "True"
  /\ DiskSchedulable(controllerID, "d1").status = "False"

\* A pass removes the finalizer of node n, which has a deletion timestamp.
RemovesFinalizer(n) ==
  /\ node[n].exists /\ node[n].deleting /\ node[n].finalizer
  /\ ~node'[n].finalizer
  /\ last'.key = n

\* C26: no reconcile removes the finalizer of a node with a deletion
\* timestamp while a replica with Spec.NodeID equal to that node exists.
C26_FinalizerAfterReplicas ==
  [][\A n \in NodeNames :
       RemovesFinalizer(n) => \A r \in replicas : r.node # n]_vars

\* The node object of n1 is gone while replica r1 of n1 exists.
C26_OrphanedReplica ==
  /\ ~node["n1"].exists
  /\ \E r \in replicas : r.node = "n1"
  /\ last.key = "n1" /\ last.path = "deleting"

\* Why a pass over node n sets Ready = False for disk id: the probe failed,
\* the config file is unreadable, the config does not carry the recorded
\* UUID, or the disk has no UUID and either shares its fsid with another
\* disk or the generation of its config was tried.
NotReadyCause(n, id) ==
  \/ probe[id].err
  \/ config[id].err = "other"
  \/ /\ node[n].status.diskStatus[id].uuid # NoUUID
     /\ config[id] # ConfigOf(node[n].status.diskStatus[id].uuid)
  \/ /\ node[n].status.diskStatus[id].uuid = NoUUID
     /\ \/ FsidGroup(n, probe[id].fsid) # {id}
        \/ <<"generateDiskConfig", id>> \in last.calls

\* C27: after a successful reconcile by the owning controller every disk
\* of Spec.Disks has a Ready condition that is True or False and that the
\* pass has set from what it saw; Ready = True implies a non-empty DiskUUID
\* equal to the UUID of the config file of the disk and StorageMaximum and
\* StorageAvailable equal to the figures of the probe; Ready = False
\* implies StorageMaximum = StorageAvailable = 0.
C27_DiskReadySet ==
  (Reconciled(controllerID) /\ last.path = "owner") =>
     \A id \in DOMAIN node[controllerID].disks :
        /\ id \in DOMAIN node[controllerID].status.diskStatus
        /\ LET ds == node[controllerID].status.diskStatus[id]
               ready == DiskReady(controllerID, id).status
           IN /\ ready \in {"True", "False"}
              /\ ready = "True" =>
                    /\ ds.uuid # NoUUID
                    /\ config[id] = ConfigOf(ds.uuid)
                    /\ ~probe[id].err
                    /\ ds.max = probe[id].max
                    /\ ds.avail = probe[id].avail
              /\ ready = "False" =>
                    /\ ds.max = 0 /\ ds.avail = 0
                    /\ NotReadyCause(controllerID, id)

\* After a pass d1 is Ready = True with the figures of its probe and d2,
\* Ready = True after an earlier pass, is Ready = False with zero figures.
C27_Witness ==
  /\ Reconciled(controllerID) /\ last.path = "owner"
  /\ DiskReady(controllerID, "d1").status = "True"
  /\ node[controllerID].status.diskStatus["d1"].max = probe["d1"].max
  /\ node[controllerID].status.diskStatus["d1"].max > 0
  /\ DiskReady(controllerID, "d2").status = "False"
  /\ node[controllerID].status.diskStatus["d2"].uuid # NoUUID
  /\ ~probe["d2"].err

\* Disk id was reconciled successfully with a UUID and a filesystem
\* without config file is now mounted at its path.
Swapped(id) ==
  /\ id \in DOMAIN node[controllerID].disks
  /\ id \in DOMAIN node[controllerID].status.diskStatus
  /\ node[controllerID].status.diskStatus[id].uuid # NoUUID
  /\ DiskReady(controllerID, id).status = "True"
  /\ ~probe[id].err
  /\ config[id] = ConfigNotFound

\* The step is a pass of the owning controller that returns no error.
OwnerPassOK ==
  /\ last'.key = controllerID /\ last'.path = "owner"
  /\ last'.err = "nil" /\ ~last'.requeued

\* C28: when disk d was reconciled successfully with UUID U and another
\* filesystem without config file is then mounted at its path, the next
\* reconcile sets d Ready = False with reason DiskFilesystemChanged, keeps
\* the recorded DiskUUID U, sets StorageMaximum = StorageAvailable = 0 and
\* generates no config file on the new filesystem.
C28_FilesystemSwap ==
  [][\A id \in DiskIDs :
       (Swapped(id) /\ OwnerPassOK) =>
          /\ DiskReady(controllerID, id)'.status = "False"
          /\ DiskReady(controllerID, id)'.reason = "DiskFilesystemChanged"
          /\ node'[controllerID].status.diskStatus[id].uuid =
                node[controllerID].status.diskStatus[id].uuid
          /\ node'[controllerID].status.diskStatus[id].max = 0
          /\ node'[controllerID].status.diskStatus[id].avail = 0
          /\ config'[id] = ConfigNotFound
          /\ <<"generateDiskConfig", id>> \notin last'.calls]_vars

\* A pass has met d1 with its recorded UUID on a filesystem without config
\* file and has marked it, the stored figures being zero.
C28_Witness ==
  /\ Reconciled(controllerID) /\ last.path = "owner" /\ last.stored
  /\ "d1" \in DOMAIN node[controllerID].status.diskStatus
  /\ node[controllerID].status.diskStatus["d1"].uuid # NoUUID
  /\ config["d1"] = ConfigNotFound
  /\ probe["d1"] = ProbeOK("f2", 50)
  /\ MarkedFilesystemChanged(controllerID, "d1")
  /\ <<"getDiskConfig", "d1">> \in last.calls

\* Disks d1 and d2 are in Spec.Disks and their probes report one fsid.
SameFsidPair ==
  /\ DOMAIN node[controllerID].disks = DiskIDs
  /\ \A id \in DiskIDs : ~probe[id].err
  /\ probe["d1"].fsid = probe["d2"].fsid

\* Disk id carries no config file and no recorded UUID.
Untagged(id) ==
  /\ config[id] = ConfigNotFound
  /\ id \in DOMAIN node[controllerID].status.diskStatus =>
        node[controllerID].status.diskStatus[id].uuid = NoUUID

\* Disk a is Ready = True with a UUID and disk b is Ready = False with
\* reason DiskFilesystemChanged and without UUID.
OneOfTwo(a, b) ==
  /\ {a, b} \subseteq DOMAIN node[controllerID].status.diskStatus
  /\ DiskReady(controllerID, a).status = "True"
  /\ node[controllerID].status.diskStatus[a].uuid # NoUUID
  /\ DiskReady(controllerID, b).status = "False"
  /\ DiskReady(controllerID, b).reason = "DiskFilesystemChanged"
  /\ node[controllerID].status.diskStatus[b].uuid = NoUUID

\* The first pass over the two untagged disks, generateDiskConfig not
\* failing, makes one of them ready.
FirstPassPicksOne ==
  (/\ SameFsidPair /\ Untagged("d1") /\ Untagged("d2")
   /\ OwnerPassOK
   /\ \A id \in DiskIDs : DiskReady(controllerID, id)'.reason # "NoDiskInfo")
  => \E a, b \in DiskIDs : a # b /\ OneOfTwo(a, b)'

\* A later pass with the same probes and config files keeps the choice,
\* whatever the order in which it visits the two disks.
LaterPassKeeps ==
  \A a, b \in DiskIDs :
     (/\ a # b /\ SameFsidPair /\ OneOfTwo(a, b)
      /\ config[a] = ConfigOf(node[controllerID].status.diskStatus[a].uuid)
      /\ config[b] = ConfigNotFound
      /\ OwnerPassOK)
     => /\ OneOfTwo(a, b)'
        /\ node'[controllerID].status.diskStatus[a].uuid =
              node[controllerID].status.diskStatus[a].uuid
        /\ config' = config

\* C29: when two untagged disks d1 and d2 of one node report the same
\* fsid, the first reconcile makes exactly one of them Ready = True with a
\* UUID and the other Ready = False with reason DiskFilesystemChanged, and
\* every later reconcile with the same probes, in any order of the two
\* disks, keeps the same disk Ready = True and the other Ready = False
\* with an empty DiskUUID.
C29_DuplicateFsid ==
  /\ [][FirstPassPicksOne]_vars
  /\ [][LaterPassKeeps]_vars

\* A later pass over the two disks has found d2 ready and d1 not, as the
\* pass before it left them, and has changed nothing.
C29_Witness ==
  /\ Reconciled(controllerID) /\ last.path = "owner" /\ ~last.changed
  /\ SameFsidPair /\ OneOfTwo("d2", "d1")
  /\ config["d1"] = ConfigNotFound
  /\ <<"getDiskConfig", "d1">> \in last.calls

\* The node of the controller at cold boot: one disk, d1, that has room and
\* carries no config file, nothing reconciled yet, no replica and no
\* instance manager, the manager pod and the Kubernetes node healthy.
ColdBoot ==
  /\ DOMAIN node[controllerID].disks = {"d1"}
  /\ node[controllerID].status = Node0.status
  /\ config["d1"] = ConfigNotFound
  /\ ~probe["d1"].err
  /\ IsSchedulableToDisk(0, [max |-> probe["d1"].max, avail |-> probe["d1"].avail,
                             reserved |-> node[controllerID].disks["d1"].reserved,
                             pct |-> setting.minimalAvailablePercentage])
  /\ replicas = {} /\ ims = {}
  /\ PodIsReady(controllerID) /\ KubeHealthy(controllerID)

\* The instance managers the step has created.
CreatedIMs == ims' \ ims

\* C30: from cold boot one reconcile by the owning controller, every call
\* of which succeeds, ends with d1 Ready = True and Schedulable = True, a
\* config file generated at the path of d1 whose UUID is the recorded
\* DiskUUID, and exactly one Engine-type and one Replica-type instance
\* manager with the default image created.
C30_ColdBoot ==
  [][(/\ ColdBoot /\ OwnerPassOK
      /\ DiskReady(controllerID, "d1")'.reason # "NoDiskInfo")
     => /\ DiskReady(controllerID, "d1")'.status = "True"
        /\ DiskSchedulable(controllerID, "d1")'.status = "True"
        /\ <<"generateDiskConfig", "d1">> \in last'.calls
        /\ config'["d1"].err = "nil"
        /\ config'["d1"].uuid # NoUUID
        /\ config'["d1"].uuid = node'[controllerID].status.diskStatus["d1"].uuid
        /\ Cardinality(CreatedIMs) = 2
        /\ \A t \in {"engine", "replica"} :
              \E im \in CreatedIMs :
                 /\ im.type = t /\ im.nodeID = controllerID
                 /\ im.image = setting.defaultImage]_vars

\* The first pass has tagged d1, has found it ready and schedulable and has
\* created the two instance managers; the node is Ready = True.
C30_Witness ==
  /\ Reconciled(controllerID) /\ last.path = "owner" /\ last.stored
  /\ <<"generateDiskConfig", "d1">> \in last.calls
  /\ {c \in last.calls : c[1] = "CreateInstanceManager"} =
        {<<"CreateInstanceManager", 1>>, <<"CreateInstanceManager", 2>>}
  /\ DiskReady(controllerID, "d1").status = "True"
  /\ DiskSchedulable(controllerID, "d1").status = "True"
  /\ config["d1"] = ConfigOf(node[controllerID].status.diskStatus["d1"].uuid)
  /\ NodeReady(controllerID).status = "True"
  /\ Cardinality(ims) = 2

\* Manager im is one that the per-type loop of the pass over the node of
\* the controller visits: the cache lists it for a needed type.
Visited(im) ==
  /\ im \in ims
  /\ im.cached /\ im.labelNode = controllerID /\ im.nodeID = controllerID
  /\ im.type \in NeededTypes(controllerID)

\* Manager im runs the old image and has an instance that is Running or
\* Starting; it carries no deletion timestamp.
BusyOld(im) ==
  /\ Visited(im) /\ ~im.deleting
  /\ im.image # setting.defaultImage
  /\ im.state = "Running"
  /\ im.instances \cap LiveInstanceStates # {}

\* Manager im runs the old image, is Running, and none of its instances is
\* Running or Starting.
DrainedOld(im) ==
  /\ Visited(im)
  /\ im.image # setting.defaultImage
  /\ im.state = "Running"
  /\ im.instances \cap LiveInstanceStates = {}

\* The pass requests the deletion of the manager `name`.
DeleteRequested(name) == <<"DeleteInstanceManager", name>> \in last'.calls

\* The cache lists no default-image manager of type t for the node.
NoDefaultListed(t) ==
  ~\E im \in ims : Visited(im) /\ im.type = t /\ im.image = setting.defaultImage

\* C31: a reconcile does not delete a manager of a needed type that runs
\* another image than the default, is Running and has an instance Running
\* or Starting, and it creates a default-image manager beside it in the
\* same pass; once none of its instances is Running or Starting, the next
\* reconcile of the node requests its deletion.
C31_ImageRollout ==
  [][OwnerPassOK =>
       \A im \in ims :
          /\ BusyOld(im) =>
                /\ im \in ims'
                /\ ~DeleteRequested(im.name)
                /\ NoDefaultListed(im.type) =>
                      \E new \in ims' \ ims :
                         /\ new.type = im.type /\ new.nodeID = controllerID
                         /\ new.image = setting.defaultImage
                /\ \E d \in ims' : /\ d.type = im.type /\ d.nodeID = controllerID
                                   /\ d.image = setting.defaultImage
          /\ DrainedOld(im) =>
                /\ DeleteRequested(im.name)
                /\ \E d \in ims' : d.name = im.name /\ d.deleting]_vars

\* A pass has created the manager of image v2 beside the one of image v1,
\* which runs an instance and was left alone.
C31_Witness ==
  /\ Reconciled(controllerID) /\ last.path = "owner"
  /\ setting.defaultImage = "v2"
  /\ \E old \in ims, new \in ims :
        /\ old.type = new.type
        /\ old.image = "v1" /\ old.state = "Running" /\ ~old.deleting
        /\ old.instances \cap LiveInstanceStates # {}
        /\ new.image = "v2"
        /\ <<"CreateInstanceManager", new.name>> \in last.calls

\* A pass has requested the deletion of the manager of image v1, whose
\* instances have stopped, the manager of image v2 being there.
C31_WitnessDrained ==
  /\ Reconciled(controllerID) /\ last.path = "owner"
  /\ setting.defaultImage = "v2"
  /\ \E old \in ims, new \in ims :
        /\ old.type = new.type
        /\ old.image = "v1" /\ old.state = "Running" /\ old.deleting
        /\ old.instances = {"Stopped"}
        /\ <<"DeleteInstanceManager", old.name>> \in last.calls
        /\ new.image = "v2" /\ ~new.deleting

Mislabeled(t) ==
  \E im \in ims : /\ im.cached /\ im.labelNode = controllerID /\ im.type = t
                  /\ im.labelNode # im.nodeID

\* The types that the loop over imTypes visits, in its order.
TypeOrder == IF DOMAIN node[controllerID].disks = {}
             THEN <<"engine">> ELSE <<"engine", "replica">>

\* The first type of the loop with a mislabeled manager, and the types
\* after it.
FirstMislabeled(i) ==
  /\ i \in DOMAIN TypeOrder
  /\ Mislabeled(TypeOrder[i])
  /\ \A j \in 1..(i - 1) : ~Mislabeled(TypeOrder[j])

LaterTypes(i) == {TypeOrder[j] : j \in (i + 1)..Len(TypeOrder)}

\* The step is a pass of the owning controller over its node that gets as
\* far as syncInstanceManagers.
OwnerPass == last'.key = controllerID /\ last'.path = "owner"

\* C33: when the cache lists for the node a manager whose node label
\* differs from its Spec.NodeID, syncInstanceManagers returns an error at
\* that manager: no default manager is created for that type, the later
\* types are not processed, the node status computed in the pass is not
\* written, and the key is retried up to the retry bound.
C33_LabelMismatch ==
  [][\A i \in 1..2 :
       (FirstMislabeled(i) /\ OwnerPass) =>
          /\ last'.err = "BUG"
          /\ \A new \in ims' \ ims : new.type \notin {TypeOrder[i]} \cup LaterTypes(i)
          /\ \A im \in ims : im.type \in LaterTypes(i) =>
                (~DeleteRequested(im.name) /\ im \in ims')
          /\ ~last'.called /\ ~last'.stored
          /\ node' = node
          /\ IF last'.numRequeues < maxRetries
             THEN /\ last'.handled = "retry"
                  /\ controllerID \in waiting'
                  /\ requeues'[controllerID] = last'.numRequeues + 1
             ELSE /\ last'.handled = "drop"
                  /\ requeues'[controllerID] = 0
                  /\ waiting' = waiting]_vars

\* A pass has generated the config of d1 and has recorded its UUID, then
\* met the mislabeled engine manager: the status was not written, the
\* config file stays, and the key is retried.
C33_Witness ==
  /\ PassDone /\ last.key = controllerID /\ last.err = "BUG"
  /\ last.handled = "retry"
  /\ <<"generateDiskConfig", "d1">> \in last.calls
  /\ config["d1"].err = "nil"
  /\ "d1" \notin DOMAIN node[controllerID].status.diskStatus
  /\ Mislabeled("engine")

\* The key was dropped after a pass that met the mislabeled manager.
C33_WitnessDrop ==
  /\ PassDone /\ last.key = controllerID /\ last.err = "BUG"
  /\ last.handled = "drop"

\* The replicas that ListReplicasByNode(n) returns under the disk ID id.
ListedReplicas(n, id) == {r \in replicas : r.node = n /\ r.disk = id}

\* The sum of the values of a map from names to sizes, given as its pairs.
RECURSIVE SumOfMap(_)
SumOfMap(pairs) ==
  IF pairs = {} THEN 0
  ELSE LET p == CHOOSE x \in pairs : TRUE IN p[2] + SumOfMap(pairs \ {p})

\* C34: after a successful disk sync, for every disk of Spec.Disks
\* StorageScheduled is the sum of Spec.VolumeSize of the replicas that
\* ListReplicasByNode returns for its disk ID and ScheduledReplica maps
\* the names of exactly those replicas to their sizes, so StorageScheduled
\* is the sum of the values of the map; replicas that name a disk ID which
\* is not in Spec.Disks change no field of the status: the pass that
\* follows a successful pass which found every disk ready, with nothing but
\* such replicas created or deleted in between, leaves the node as it is.
C34_StorageScheduled ==
  /\ []((Reconciled(controllerID) /\ last.path = "owner") =>
          \A id \in DOMAIN node[controllerID].disks :
             LET ds == node[controllerID].status.diskStatus[id] IN
               /\ ds.scheduledReplica =
                     {<<r.name, r.size>> : r \in ListedReplicas(controllerID, id)}
               /\ ds.scheduled = SumOfMap(ds.scheduledReplica)
               /\ ds.scheduled =
                     10 * Cardinality({r \in ListedReplicas(controllerID, id) : r.size = 10})
                     + 30 * Cardinality({r \in ListedReplicas(controllerID, id) : r.size = 30}))
  /\ [][(/\ Reconciled(controllerID) /\ last.path = "owner"
         /\ \A id \in DOMAIN node[controllerID].disks :
               DiskReady(controllerID, id).status = "True"
         /\ OwnerPassOK)
        => node' = node]_vars

\* A pass has met two replicas of 10 on d1 and a replica that names d2,
\* which is not in Spec.Disks, and has stored 20 for d1.
C34_Witness ==
  /\ Reconciled(controllerID) /\ last.path = "owner"
  /\ ~last.changed
  /\ DOMAIN node[controllerID].disks = {"d1"}
  /\ Cardinality(ListedReplicas(controllerID, "d1")) = 2
  /\ ListedReplicas(controllerID, "d2") # {}
  /\ node[controllerID].status.diskStatus["d1"].scheduled = 20
  /\ Cardinality(node[controllerID].status.diskStatus["d1"].scheduledReplica) = 2

\* The MountPropagation condition of node n as stored.
NodeMountPropagation(n) == GetCondition(node[n].status.conds, "MountPropagation")

\* No event of the pass is about the MountPropagation condition.
NoMountEvent == \A e \in last.events : e[3] # "MountPropagation"

\* C35: after a successful reconcile by the owning controller of a node
\* that has a manager pod, the MountPropagation condition is True iff the
\* system volume mount of the pod has MountPropagation Bidirectional, and
\* False with reason NoMountPropagationSupport in every other case, the
\* pod without such a volume mount included; no event is recorded for the
\* condition.
C35_MountPropagation ==
  (Reconciled(controllerID) /\ last.path = "owner" /\ pod[controllerID].exists) =>
     /\ IF pod[controllerID].mount = "Bidirectional"
        THEN NodeMountPropagation(controllerID).status = "True"
        ELSE /\ NodeMountPropagation(controllerID).status = "False"
             /\ NodeMountPropagation(controllerID).reason = "NoMountPropagationSupport"
     /\ NoMountEvent

\* The same for the pods whose first container lists the system volume
\* mount.
C35_MountListed ==
  (/\ Reconciled(controllerID) /\ last.path = "owner"
   /\ pod[controllerID].exists /\ pod[controllerID].mount # "absent") =>
     /\ IF pod[controllerID].mount = "Bidirectional"
        THEN NodeMountPropagation(controllerID).status = "True"
        ELSE /\ NodeMountPropagation(controllerID).status = "False"
             /\ NodeMountPropagation(controllerID).reason = "NoMountPropagationSupport"
     /\ NoMountEvent

\* A pass over the node whose manager pod lists no system volume mount has
\* left MountPropagation = True.
C35_StaleMountPropagation ==
  /\ Reconciled(controllerID) /\ last.path = "owner"
  /\ pod[controllerID].exists /\ pod[controllerID].mount = "absent"
  /\ NodeMountPropagation(controllerID).status = "True"

\* ------------------------------------------------------------ quiescence
\* UpdateFunc of the node informer (lines 226-229) for the update that a
\* stored status write raises: the node is enqueued again.
NodeUpdated(q, r, key) == IF r.upd.stored THEN enqueueNode(q, key) ELSE q

\* The inputs of a pass in which no call fails.
QuiesceInputs(n) == {in \in Inputs(n, {"none"}) : in.genFail = {}}

\* processNextWorkItem for a pass in which no call fails, together with the
\* update event of its status write.  The informer runs beside the worker:
\* the event arrives before handleErr (early) or after it.
ProcessNotified(w, in, early) ==
  LET key == wkey[w]
      r == syncNode(key, in)
      q0 == QueueAfterSync(key, r)
      q1 == IF early THEN NodeUpdated(q0, r, key) ELSE q0
      h == handleErr(q1, r.err, key)
      h2 == IF early THEN h ELSE [h EXCEPT !.q = NodeUpdated(@, r, key)]
  IN /\ pc[w] = "sync"
     /\ ProcessHandled(w, key, r, h2, q1.requeues[key])

QuiesceDisks == {{"d1"}, {"d1", "d2"}}

NextQuiesce ==
  \/ NodeEvent(controllerID)
  \/ DelayElapsed(controllerID)
  \/ Get("w1")
  \/ \E in \in QuiesceInputs(wkey["w1"]) : \E early \in BOOLEAN :
        ProcessNotified("w1", in, early)
  \/ \E ids \in QuiesceDisks : SetDisks(controllerID, ids)
  \/ \E v \in PodValues : PodChange(controllerID, v)

\* Worker w is in a pass that, for some iteration order of the disk map,
\* computes the status that is stored.
CanRest(w) ==
  /\ pc[w] = "sync"
  /\ \E in \in QuiesceInputs(wkey[w]) : ~syncNode(wkey[w], in).upd.called

\* A pass of worker w that has not called UpdateNodeStatus.
RestPass(w) ==
  /\ \E in \in QuiesceInputs(wkey[w]) : \E early \in BOOLEAN :
        ProcessNotified(w, in, early)
  /\ ~last'.called

\* The delay of a rate-limited add elapses, an idle worker takes the head of
\* a non-empty queue, and a pass returns.  The passes of QuiesceInputs differ
\* in the iteration order of the disk map only, which the Go runtime draws
\* afresh for every range loop: an order that is possible again and again is
\* drawn at some time.
SpecQuiesce ==
  /\ InitWith({}, SameFsid)
  /\ [][NextQuiesce]_vars
  /\ WF_vars(DelayElapsed(controllerID))
  /\ WF_vars(Get("w1"))
  /\ []<>(pc["w1"] # "sync")
  /\ ([]<>CanRest("w1")) => []<><<RestPass("w1")>>_vars

\* A step of the world outside the controller: a watch event for the node
\* that no status write of the controller raised, a change of Spec.Disks, a
\* change of the manager pod.
ExternalStep ==
  \/ NodeEvent(controllerID)
  \/ \E ids \in QuiesceDisks : SetDisks(controllerID, ids)
  \/ \E v \in PodValues : PodChange(controllerID, v)

\* Nothing is queued, delayed, marked dirty or being processed.
Quiet == queue = <<>> /\ waiting = {} /\ dirty = {} /\ processing = {}

C36_WitnessQuiet ==
  /\ Reconciled(controllerID) /\ last.path = "owner" /\ ~last.called
  /\ DOMAIN node[controllerID].disks = {"d1", "d2"}
  /\ Quiet

\* -------------------------------------------------- disk config generation
ConfigFailPoints == {"UpdateNodeStatus", "Conflict", "ListReplicasByNode"}

NextConfig ==
  \/ SetDisks(controllerID, DiskIDs)
  \/ Remount("d2", "f1")
  \/ ConfigChange("d1", ConfigNotFound)
  \/ SyncNode(controllerID)
  \/ SyncNodeFailing(controllerID, ConfigFailPoints)

SpecConfig == InitWith({"d1"}, OwnFsid) /\ [][NextConfig]_vars

\* The place of disk id in the iteration order.
OrderIndex(order, id) == CHOOSE i \in DOMAIN order : order[i] = id

\* The DiskUUID recorded for disk id in the stored status, and the status of
\* its stored Ready condition.
RecordedUUID(id) ==
  IF id \in DOMAIN node[controllerID].status.diskStatus
  THEN node[controllerID].status.diskStatus[id].uuid ELSE NoUUID
RecordedReady(id) ==
  IF id \in DOMAIN node[controllerID].status.diskStatus
  THEN DiskReady(controllerID, id).status ELSE NoCond.status

\* The status of the Ready condition of disk o that the pass with result r
\* holds in memory when it reaches disk id: the one it computed if o came
\* before id, the stored one otherwise.
ReadyWhenReached(r, order, id, o) ==
  IF OrderIndex(order, o) < OrderIndex(order, id)
  THEN GetCondition(r.m.st.diskStatus[o].conds, "Ready").status
  ELSE RecordedReady(o)

\* In every pass that can start here, generateDiskConfig is called for a
\* disk only if its recorded DiskUUID is empty, no config file is found at
\* its path and no other disk of its fsid group is Ready=True.
GeneratesOnlyWhenNew ==
  \A in \in Inputs(controllerID, ConfigFailPoints \cup {"none"}) :
    LET r == syncNode(controllerID, in) IN
      \A id \in DiskIDs :
         <<"generateDiskConfig", id>> \in r.m.calls =>
            /\ RecordedUUID(id) = NoUUID
            /\ config[id].err = "notfound"
            /\ \A o \in FsidGroup(controllerID, probe[id].fsid) \ {id} :
                  ReadyWhenReached(r, in.order, id, o) # "True"

\* A pass never calls generateDiskConfig for a path whose config file
\* exists, and leaves the file as it is.
KeepsConfig ==
  \A id \in DiskIDs :
     (PassDone' /\ config[id].err = "nil") =>
        /\ config'[id] = config[id]
        /\ <<"generateDiskConfig", id>> \notin last'.calls

\* The last pass generated a config for disk id and did not store the
\* status it had computed.
PendingUUID(id) ==
  /\ PassDone /\ last.key = controllerID /\ last.path = "owner"
  /\ <<"generateDiskConfig", id>> \in last.calls
  /\ config[id].err = "nil"
  /\ ~last.stored
  /\ RecordedUUID(id) = NoUUID

\* The pass of this step has stored the UUID found on disk for disk id.
Adopts(id) ==
  /\ id \in DOMAIN node'[controllerID].status.diskStatus
  /\ node'[controllerID].status.diskStatus[id].uuid = config[id].uuid

\* The pass of this step has found another disk of the fsid group of id
\* Ready=True when it reached id (as stored, or as the pass had just set it)
\* and has left id without a UUID, Ready=False.
SetAsideAsDuplicate(id) ==
  /\ id \in DOMAIN node'[controllerID].status.diskStatus
  /\ node'[controllerID].status.diskStatus[id].uuid = NoUUID
  /\ LET c == GetCondition(node'[controllerID].status.diskStatus[id].conds, "Ready")
     IN c.status = "False" /\ c.reason = "DiskFilesystemChanged"
  /\ \E o \in FsidGroup(controllerID, probe[id].fsid) \ {id} :
        \/ RecordedReady(o) = "True"
        \/ GetCondition(node'[controllerID].status.diskStatus[o].conds,
                        "Ready").status = "True"

\* The pass of this step is a pass of the owner that returned no error and
\* stored its status, with disk id still in Spec.Disks.
StoringPass(id) ==
  /\ OwnerPassOK /\ last'.stored
  /\ id \in DOMAIN node[controllerID].disks

\* C37: a new disk config is generated for a disk only when its recorded
\* DiskUUID is empty, no other disk of its fsid group is Ready=True, and no
\* config file is found at its path; hence when a pass generated a config but
\* its status write failed, conflicted or was skipped because of a later
\* error, the next pass adopts the UUID already on disk, and the UUID of a
\* path is never regenerated while its config file exists.
C37_ConfigGeneration ==
  /\ []GeneratesOnlyWhenNew
  /\ [][KeepsConfig]_vars
  /\ [][\A id \in DiskIDs : (PendingUUID(id) /\ StoringPass(id)) => Adopts(id)]_vars

\* C37 as amended: the next pass adopts the UUID already on disk unless it
\* finds another disk of the same fsid group Ready=True when it reaches the
\* disk, in which case the disk is set aside as a duplicate; in neither case
\* is a config generated again.
C37_ConfigKept ==
  /\ []GeneratesOnlyWhenNew
  /\ [][KeepsConfig]_vars
  /\ [][\A id \in DiskIDs :
          (PendingUUID(id) /\ StoringPass(id)) =>
             Adopts(id) \/ SetAsideAsDuplicate(id)]_vars

\* A pass generated a config for d1 and its status write failed; the next
\* pass has stored the UUID of that file without generating another.
C37_Witness ==
  /\ Reconciled(controllerID) /\ last.path = "owner" /\ last.stored
  /\ <<"generateDiskConfig", "d1">> \notin last.calls
  /\ nextUUID = 2
  /\ config["d1"] = ConfigOf(1)
  /\ RecordedUUID("d1") = 1

\* The config of d1 was generated by a pass that did not store its status;
\* the next pass has taken d2, on the same filesystem, first and has set d1
\* aside.
C37_WitnessSetAside ==
  /\ Reconciled(controllerID) /\ last.path = "owner" /\ last.stored
  /\ config["d1"].err = "nil" /\ config["d2"].err = "nil"
  /\ "d2" \in DOMAIN node[controllerID].status.diskStatus
  /\ RecordedUUID("d1") = NoUUID
  /\ RecordedUUID("d2") = config["d2"].uuid
  /\ DiskReady(controllerID, "d1").reason = "DiskFilesystemChanged"

\* ------------------------------------------- not ready and yet schedulable
ZeroedProbes == {ProbeErr, ProbeOK("f1", 50)}
ZeroedReserved == {0, 10}
ZeroedPercentages == {0, 25}

NextZeroed ==
  \/ \E v \in ZeroedProbes : ProbeChange("d1", v)
  \/ \E v \in ZeroedReserved : SetReserved(controllerID, "d1", v)
  \/ \E v \in ZeroedPercentages : SettingPercentage(v)
  \/ \E v \in {ConfigNotFound, ConfigUnreadable} : ConfigChange("d1", v)
  \/ SyncNode(controllerID)

SpecZeroed == InitWith({"d1"}, OwnFsid) /\ [][NextZeroed]_vars

\* C38: a disk that is Ready=False after a reconcile is never
\* Schedulable=True after that same reconcile, whatever its StorageReserved
\* and the minimal-available-percentage setting (including reserved 0 and
\* percentage 0, where its zeroed storage counters are fed to the scheduling
\* predicate).
C38_NotReadyNotSchedulable ==
  (Reconciled(controllerID) /\ last.path = "owner") =>
     \A id \in DOMAIN node[controllerID].status.diskStatus :
        DiskReady(controllerID, id).status = "False" =>
           DiskSchedulable(controllerID, id).status # "True"

\* What holds instead: a disk that is Ready=False after a reconcile has
\* zeroed counters and is Schedulable=True exactly if its StorageReserved
\* is 0, whatever the percentage.
C38_NotReadySchedulableIffNoReserve ==
  (Reconciled(controllerID) /\ last.path = "owner") =>
     \A id \in DOMAIN node[controllerID].status.diskStatus :
        DiskReady(controllerID, id).status = "False" =>
           /\ StoredInfo(controllerID, id).max = 0
           /\ StoredInfo(controllerID, id).avail = 0
           /\ (DiskSchedulable(controllerID, id).status = "True")
                 <=> (node[controllerID].disks[id].reserved = 0)

\* After a reconcile d1 is Ready=False and Schedulable=True, the percentage
\* being 25.
C38_NotReadySchedulable ==
  /\ Reconciled(controllerID) /\ last.path = "owner"
  /\ "d1" \in DOMAIN node[controllerID].status.diskStatus
  /\ DiskReady(controllerID, "d1").status = "False"
  /\ DiskSchedulable(controllerID, "d1").status = "True"
  /\ setting.minimalAvailablePercentage = 25

\* ------------------------------------------------------- the retry budget
\* The pass that has just returned failed and handleErr enqueued the key
\* again; it failed and handleErr dropped the key.
Retried == PassDone /\ last.err # "nil" /\ last.handled = "retry"
Dropped == PassDone /\ last.err # "nil" /\ last.handled = "drop"

\* A watch event for node n leaves NumRequeues of its key as it is.
EventKeepsBudget(n) == NodeEvent(n) => requeues'[n] = requeues[n]

\* C39: the requeue count that handleErr compares with maxRetries counts
\* only failed reconciles of that key: enqueues caused by watch events
\* (enqueueNode) do not consume the retry budget, so a key that starts
\* failing is retried after each of its first maxRetries failures before it
\* is dropped; in particular no key is dropped in a behaviour in which no
\* failure was ever retried.
C39_RetryBudget ==
  /\ [][EventKeepsBudget(controllerID)]_vars
  /\ ([]~Retried) => []~Dropped

\* What holds instead: every add of the key through enqueueNode, for a
\* watch event as for a conflict, raises NumRequeues by one; a failure is
\* retried exactly if the count it meets is below maxRetries; a pass without
\* error and a drop reset the count.
C39_EventsSpendBudget ==
  /\ [][NodeEvent(controllerID) =>
          requeues'[controllerID] = requeues[controllerID] + 1]_vars
  /\ [](Retried => last.numRequeues < maxRetries)
  /\ [](Dropped => (last.numRequeues >= maxRetries /\ requeues[last.key] = 0))
  /\ []((PassDone /\ last.err = "nil" /\ ~last.requeued /\ last.handled = "forget")
          => requeues[last.key] = 0)

\* A failing pass has met a count of maxRetries and was dropped, and the
\* node object is as it was created: no pass has stored anything.
C39_DroppedEarly ==
  /\ Dropped /\ last.key = controllerID
  /\ last.numRequeues = maxRetries
  /\ node[controllerID].status.conds["Ready"] = NoCond

\* ------------------------------------------------- empty default image
EmptyImageValues == {"", "v1", "v2"}

NextEmptyImage ==
  \/ \E ids \in {{}, {"d1"}} : SetDisks(controllerID, ids)
  \/ \E v \in EmptyImageValues : SettingImage(v)
  \/ \E v \in PodValues : PodChange(controllerID, v)
  \/ SyncNode(controllerID)

SpecEmptyImage == InitWith({"d1"}, OwnFsid) /\ [][NextEmptyImage]_vars

\* The managers of node n in the store.
ManagersOf(n) == {im \in ims : im.nodeID = n}

\* The pass of this step has asked for no instance manager to be created
\* or deleted.
NoManagerCall ==
  \A c \in last'.calls : c[1] \notin {"CreateInstanceManager", "DeleteInstanceManager"}

\* C40: when the DefaultInstanceManagerImage setting is empty,
\* instance-manager sync returns an error before creating or deleting any
\* instance manager (also when Spec.Disks is empty), and the node status
\* computed in that pass is not written.
C40_EmptyDefaultImage ==
  [][(OwnerPass /\ setting.defaultImage = "") =>
        /\ last'.err # "nil"
        /\ last'.failed = "GetSettingValueExisted"
        /\ NoManagerCall
        /\ ims' = ims /\ nextIM' = nextIM
        /\ ~last'.called /\ ~last'.stored
        /\ node'[controllerID].status = node[controllerID].status]_vars

\* The setting is empty, Spec.Disks is empty and a replica manager is left
\* from the time the node had a disk; a pass has computed a status that
\* differs from the stored one and has returned the error.
C40_Witness ==
  /\ PassDone /\ last.key = controllerID /\ last.path = "owner"
  /\ last.failed = "GetSettingValueExisted"
  /\ last.changed /\ ~last.called
  /\ setting.defaultImage = ""
  /\ DOMAIN node[controllerID].disks = {}
  /\ \E im \in ManagersOf(controllerID) : im.type = "replica"

\* The same with a disk in Spec.Disks and a manager of an image that is no
\* longer the default.
C40_WitnessDisk ==
  /\ PassDone /\ last.key = controllerID /\ last.path = "owner"
  /\ last.failed = "GetSettingValueExisted"
  /\ last.changed /\ ~last.called
  /\ setting.defaultImage = ""
  /\ DOMAIN node[controllerID].disks = {"d1"}
  /\ ManagersOf(controllerID) # {}

====
